---- MODULE Spec2Model ----
(***************************************************************************)
(* OrderTracker: the Etsy credential store (src/src/etsy.rs), the two     *)
(* source clients and the aggregator fetch_all_orders (src/src/api.rs),   *)
(* the log buffer (src/src/log.rs) and the catalog matcher and metal      *)
(* inference of src/src/model.rs.                                         *)
(*                                                                         *)
(* Conventions.  Option<T> is a sequence of length at most one: None is   *)
(* <<>> and Some(x) is <<x>>.  A String is a sequence of one-character    *)
(* strings, so that trim() is computed and not assumed.  Result<String,   *)
(* String> is a record [ok, tok, err].                                    *)
(***************************************************************************)
EXTENDS Integers, Sequences, FiniteSets, TLC

\* ------------------------------------------------------------------ bounds
\* seconds between two observations of the wall clock
TickStep == 300
\* number of operations (calls of get_etsy_access_token and of
\* save_etsy_refresh_token, clock advances) in one behaviour
MaxOps == 4
\* a short expires_in the provider may send (seconds)
ShortLife == 600

\* ------------------------------------------------------- program constants
\* etsy.rs:69  expires > now_secs + 300
EXPIRY_MARGIN == 300
\* etsy.rs:110 tok.expires_in.unwrap_or(3600)
DEFAULT_EXPIRES_IN == 3600

VARIABLES
    file,          \* the persisted etsy_oauth.json: [state, cfg]
    now,           \* Utc::now().timestamp()
    secret,        \* ETSY_SECRET (a String, possibly empty)
    getPc,         \* get_etsy_access_token: "idle" | "awaitRefresh" | "done"
    getCfg,        \* its local `cfg` (the config it loaded)
    getRefresh,    \* its local `refresh` (the token sent in the grant)
    getResult,     \* what the call returned
    ops,           \* operations begun so far
    getNet,        \* refresh requests this call has sent
    getStartFile,  \* history: the file when this call began
    getStartNow,   \* history: now_secs of this call
    getResp,       \* history: the provider's answer to this call's request
    getRespNow,    \* history: Utc::now() when the answer was handled
    getSaveOk,     \* history: save_etsy_config returned Ok in this call
    getDirty,      \* history: save_etsy_refresh_token wrote since this call began
    getPrev,       \* history: the operation completed last before this call
    lastDone,      \* history: the operation completed last
    lastSave       \* history: the last save_etsy_refresh_token call

tokVars == <<file, now, secret, getPc, getCfg, getRefresh, getResult, ops,
             getNet, getStartFile, getStartNow, getResp, getRespNow,
             getSaveOk, getDirty, getPrev, lastDone, lastSave>>

\* ----------------------------------------------------------------- strings
None == <<>>
Some(x) == <<x>>

IsWhitespace(c) == c \in {" ", "\t", "\n"}

RECURSIVE TrimStart(_)
TrimStart(s) ==
    IF s = <<>> THEN <<>>
    ELSE IF IsWhitespace(Head(s)) THEN TrimStart(Tail(s)) ELSE s

RECURSIVE TrimEnd(_)
TrimEnd(s) ==
    IF s = <<>> THEN <<>>
    ELSE IF IsWhitespace(s[Len(s)]) THEN TrimEnd(SubSeq(s, 1, Len(s) - 1)) ELSE s

\* str::trim
Trim(s) == TrimEnd(TrimStart(s))

\* ------------------------------------------------------------- EtsyOAuthConfig
Cfg(r, a, e) == [refresh_token |-> r, access_token |-> a, expires_at_utc_secs |-> e]

\* EtsyOAuthConfig::default()
DefaultCfg == Cfg(None, None, None)

\* the file as serde_json::to_string_pretty writes it
JsonFile(cfg) == [state |-> "json", cfg |-> cfg]
\* no file at the path (or no config dir)
MissingFile == [state |-> "missing", cfg |-> DefaultCfg]
\* a file serde_json::from_str rejects (truncated or foreign content)
GarbageFile == [state |-> "garbage", cfg |-> DefaultCfg]

\* load_etsy_config: a missing or unparsable file is the default config
load_etsy_config(f) == IF f.state = "json" THEN f.cfg ELSE DefaultCfg

\* std::fs::write creates/truncates and then writes: when it fails the old
\* content is either still there (create failed) or already lost (write failed).
WriteOutcomes(f, cfg) ==
    { [ok |-> TRUE, file |-> JsonFile(cfg)],
      [ok |-> FALSE, file |-> f],
      [ok |-> FALSE, file |-> GarbageFile] }

\* --------------------------------------------------------------- results
Ok(t) == [ok |-> TRUE, tok |-> t, err |-> ""]
Err(e) == [ok |-> FALSE, tok |-> <<>>, err |-> e]
NoResult == [ok |-> FALSE, tok |-> <<>>, err |-> "(none)"]

ErrNotConnected == "Etsy not connected. Get a refresh token from order-tracker.kingsofalchemy.com/connect and paste it in Settings."
ErrRefreshRequest == "Refresh request failed"
ErrRefreshStatus == "Etsy token refresh failed"
ErrRefreshParse == "Parse token response"

\* ------------------------------------------------------------ the provider
\* the access tokens the token endpoint may issue
NewAccessTokens == { <<"a">>, <<"b">> }
\* the refresh token the provider rotates r into
Rotated(r) == Append(r, "'")

NoResp == [kind |-> "none", access_token |-> <<>>, expires_in |-> None, refresh_token |-> None]

\* what POST /oauth/token can answer to a grant for refresh token r
Responses(r) ==
    { [kind |-> k, access_token |-> <<>>, expires_in |-> None, refresh_token |-> None]
        : k \in {"transport", "status", "parse"} }
    \cup
    { [kind |-> "ok", access_token |-> a, expires_in |-> e, refresh_token |-> rt]
        : a \in NewAccessTokens,
          e \in {None, Some(ShortLife)},
          rt \in {None, Some(Rotated(r))} }

\* the answers drawn during a fetch cycle: every failure, and one success
FetchResponses(r) ==
    { resp \in Responses(r) :
        resp.kind = "ok" =>
            /\ resp.access_token = <<"a">>
            /\ resp.expires_in = None
            /\ resp.refresh_token = None }

\* -------------------------------------------------------------- history
NoOp == [op |-> "none", ok |-> FALSE, tok |-> <<>>, exp |-> 0,
         refreshed |-> FALSE, persisted |-> FALSE, afterSave |-> FALSE]
SaveOp(ok) == [op |-> "save", ok |-> ok, tok |-> <<>>, exp |-> 0,
               refreshed |-> FALSE, persisted |-> ok, afterSave |-> FALSE]
GetOp(res, exp, refreshed, persisted, prev) ==
    [op |-> "get", ok |-> res.ok, tok |-> res.tok, exp |-> exp,
     refreshed |-> refreshed, persisted |-> persisted,
     afterSave |-> (prev.op = "save" /\ prev.ok)]
NoSave == [token |-> <<>>, ok |-> FALSE, called |-> FALSE]

\* ------------------------------------------------- get_etsy_access_token
\* etsy.rs:69 with >= for >: a token with exactly 300 s left passes
CachedUsableOffByOne(cfg, now_secs) ==
    LET expires == IF cfg.expires_at_utc_secs = None THEN 0 ELSE cfg.expires_at_utc_secs[1]
    IN  cfg.access_token # None /\ expires >= now_secs + EXPIRY_MARGIN

\* etsy.rs:68-69: the cached access token may be returned as it is
CachedUsable(cfg, now_secs) ==
    LET expires == IF cfg.expires_at_utc_secs = None THEN 0 ELSE cfg.expires_at_utc_secs[1]
    IN  cfg.access_token # None /\ expires > now_secs + EXPIRY_MARGIN

\* etsy.rs:65-81 up to the first suspension: load, cached token, refresh
\* request sent, static secret, or "not connected"
GetStartBody ==
    /\ getPc \in {"idle", "done"}
    /\ ops < MaxOps
    /\ LET cfg == load_etsy_config(file)
       IN  /\ ops' = ops + 1
           /\ getCfg' = cfg
           /\ getStartFile' = file
           /\ getStartNow' = now
           /\ getResp' = NoResp
           /\ getRespNow' = now
           /\ getSaveOk' = FALSE
           /\ getDirty' = FALSE
           /\ getPrev' = lastDone
           /\ IF CachedUsable(cfg, now)
              THEN /\ getPc' = "done"
                   /\ getResult' = Ok(cfg.access_token[1])
                   /\ getRefresh' = <<>>
                   /\ getNet' = 0
              ELSE IF cfg.refresh_token # None
              THEN /\ getPc' = "awaitRefresh"
                   /\ getResult' = NoResult
                   /\ getRefresh' = cfg.refresh_token[1]
                   /\ getNet' = 1
              ELSE /\ getPc' = "done"
                   /\ getResult' = IF secret # <<>> THEN Ok(secret) ELSE Err(ErrNotConnected)
                   /\ getRefresh' = <<>>
                   /\ getNet' = 0
           /\ lastDone' = IF getPc' = "done"
                          THEN GetOp(getResult', 0, FALSE, FALSE, lastDone)
                          ELSE lastDone
    /\ UNCHANGED <<file, now, secret, lastSave>>

\* etsy.rs:113-115 left out: a rotated refresh token is not stored
RefreshedCfgKeepsOld(cfg, resp, now_secs) ==
    Cfg(cfg.refresh_token,
        Some(resp.access_token),
        Some(now_secs + (IF resp.expires_in = None THEN DEFAULT_EXPIRES_IN ELSE resp.expires_in[1])))

\* etsy.rs:109-115 the config after a successful token response
RefreshedCfg(cfg, resp, now_secs) ==
    Cfg(IF resp.refresh_token # None THEN resp.refresh_token ELSE cfg.refresh_token,
        Some(resp.access_token),
        Some(now_secs + (IF resp.expires_in = None THEN DEFAULT_EXPIRES_IN ELSE resp.expires_in[1])))

\* etsy.rs:95-109 with the cached token dropped when the refresh fails
FileAfterFailedRefreshCleared(f) == JsonFile(DefaultCfg)

\* etsy.rs:95-109: each failure returns before cfg is touched or written
FileAfterFailedRefresh(f) == f

\* etsy.rs:95-101,109: the error a failed refresh returns
RefreshError(kind) ==
    CASE kind = "transport" -> ErrRefreshRequest
      [] kind = "status" -> ErrRefreshStatus
      [] OTHER -> ErrRefreshParse

\* etsy.rs:83-118 from the response on: fail without touching the config, or
\* update the loaded config, write it (ignoring a write error) and return
RefreshResponseBody(resps) ==
    /\ getPc = "awaitRefresh"
    /\ \E resp \in resps :
        /\ getResp' = resp
        /\ getRespNow' = now
        /\ getPc' = "done"
        /\ IF resp.kind # "ok"
           THEN /\ getResult' = Err(RefreshError(resp.kind))
                /\ file' = FileAfterFailedRefresh(file)
                /\ UNCHANGED <<getCfg, getSaveOk>>
                /\ lastDone' = GetOp(getResult', 0, FALSE, FALSE, getPrev)
           ELSE LET cfg == RefreshedCfg(getCfg, resp, now)
                IN  /\ getCfg' = cfg
                    /\ \E w \in WriteOutcomes(file, cfg) :
                        /\ file' = w.file
                        /\ getSaveOk' = w.ok
                    /\ getResult' = Ok(resp.access_token)
                    /\ lastDone' = GetOp(getResult', cfg.expires_at_utc_secs[1],
                                         TRUE, getSaveOk', getPrev)
    /\ UNCHANGED <<now, secret, getRefresh, ops, getNet,
                   getStartFile, getStartNow, getDirty, getPrev, lastSave>>

\* ------------------------------------------------ save_etsy_refresh_token
\* the refresh tokens a user may paste
UserTokens == { <<"t">>, <<" ", "t", " ">> }

\* etsy.rs:124 left out: the cached access token survives a new refresh token
SavedCfgKeepsAccess(cfg, refresh_token) ==
    [cfg EXCEPT !.refresh_token = Some(Trim(refresh_token))]

\* etsy.rs:125 left out: the cached expiry survives a new refresh token
SavedCfgKeepsExpiry(cfg, refresh_token) ==
    [cfg EXCEPT !.refresh_token = Some(Trim(refresh_token)),
                !.access_token = None]

\* etsy.rs:122-125 the config save_etsy_refresh_token writes
SavedCfg(cfg, refresh_token) ==
    [cfg EXCEPT !.refresh_token = Some(Trim(refresh_token)),
                !.access_token = None,
                !.expires_at_utc_secs = None]

\* etsy.rs:121-127: load, set the three fields, write; no suspension point
SaveBody ==
    /\ ops < MaxOps
    /\ \E t \in UserTokens :
        \E w \in WriteOutcomes(file, SavedCfg(load_etsy_config(file), t)) :
            /\ file' = w.file
            /\ lastSave' = [token |-> t, ok |-> w.ok, called |-> TRUE]
            /\ lastDone' = SaveOp(w.ok)
    /\ ops' = ops + 1
    /\ getDirty' = TRUE
    /\ UNCHANGED <<now, secret, getPc, getCfg, getRefresh, getResult, getNet,
                   getStartFile, getStartNow, getResp, getRespNow, getSaveOk, getPrev>>

\* the wall clock advances
TickBody ==
    /\ ops < MaxOps
    /\ ops' = ops + 1
    /\ now' = now + TickStep
    /\ UNCHANGED <<file, secret, getPc, getCfg, getRefresh, getResult, getNet, getStartFile, getStartNow, getResp, getRespNow,
                   getSaveOk, getDirty, getPrev, lastDone, lastSave>>

\* ============================================================ the fetch cycle
\* A DateTime<Utc> is counted in whole days since the epoch.  A raw Etsy
\* timestamp N is carried as N / 86400, so a value in seconds is its day
\* and a value in milliseconds is 1000 times its day.

\* shopify.rs:141, etsy.rs:349 Duration::days(14)
DUE_DAYS == 14
\* etsy.rs:322 Duration::days(60)
LOOKBACK_DAYS == 60
\* etsy.rs:327 order_ts > 1_000_000_000_000, in units of 86400: the largest
\* carried value that is not greater than 10^12 / 86400
MILLIS_ABOVE == 11574074

\* the day the fetch cycle runs
NowDay == 20000
\* orders in one Shopify response
MaxBatch == 2
\* the page size: etsy.rs:233 has LIMIT = 100, and pages are scaled down
LIMIT == 2
\* receipts the shop has on the server
MaxReceipts == 4

\* log.rs:5 const MAX_LOGS: usize = 2000
MAX_LOGS == 2000

\* etsy.rs:279 the bytes of an undecoded body the preview keeps
PREVIEW_BYTES == 1500

VARIABLES
    aggPc,         \* fetch_all_orders: "idle" | "running" | "done" | "panicked"
    shopPc,        \* fetch_shopify_orders: "notStarted" | "wait" | "done"
    etsyPc,        \* fetch_etsy_orders: "notStarted" | "token" | "page" | "images"
                   \* | "done" | "panicked"
    all_orders,    \* api.rs:20
    errors,        \* api.rs:21
    aggResult,     \* what fetch_all_orders returned
    shopResult,    \* what fetch_shopify_orders returned
    etsyResult,    \* what fetch_etsy_orders returned
    offset,        \* etsy.rs:241
    all_receipts,  \* etsy.rs:240
    receiptReqs,   \* the offsets of the receipts requests sent, in order
    shopReqs,      \* the number of Shopify orders requests sent
    lastPage,      \* the last receipts page decoded: its length and count field
    image_keys,    \* etsy.rs:302
    imageReqs,     \* the (listing id, image id) of the image requests sent, in order
    image_urls,    \* etsy.rs:194 `out`, as the set of <<key, url>> inserted
    logs,          \* log.rs:7 LOG_BUF
    shopify_response, \* shopify.rs:127 the raw orders of the decoded answer
    raw_body,      \* etsy.rs:275 the body serde_json rejected, None when none was
    image_response \* etsy.rs:200-205 the answer to the listing image request, None
                   \* while it is awaited

aggVars == <<aggPc, shopPc, etsyPc, all_orders, errors, aggResult, shopResult,
             etsyResult, offset, all_receipts, receiptReqs, shopReqs, lastPage,
             image_keys, imageReqs, image_urls, logs, shopify_response, raw_body,
             image_response>>


\* ------------------------------------------------------------------ model.rs
\* number of rows in a catalog
MaxRows == 2
\* number of words in a product text
MaxWords == 2

VARIABLES
    fn,            \* the function of model.rs that is applied: "none" when none is
    fnDone,        \* it has returned
    item,          \* lookup_piece_cost, pick_cost_weight: the OrderItem
    piece_costs,   \* lookup_piece_cost: the catalog (pick_cost_weight: its row)
    row_ring,      \* ring_matches: row_ring
    item_ring,     \* ring_matches: item_ring
    text,          \* MetalType::from_string: s
    words,         \* the words `text` was put together from
    costResult,    \* Option<ItemCostWeight> returned
    ringResult,    \* bool returned by ring_matches
    metalResult    \* MetalType returned by from_string

catVars == <<fn, fnDone, item, piece_costs, row_ring, item_ring, text, words,
             costResult, ringResult, metalResult>>

\* ----------------------------------------------------- the order mappings
\* number of line items or transactions of an order that is mapped
MaxItems == 2

VARIABLES
    mapLineItem,   \* shopify.rs:158 `li`, the line item that is mapped
    mapRawOrder,   \* shopify.rs:137 `so`, the raw Shopify order that is mapped
    mapReceipt,    \* etsy.rs:325 `r`, the receipt that is mapped
    mapUrls,       \* etsy.rs:318 image_urls at the mapping
    mapItem,       \* the OrderItem built from mapLineItem
    mapOrder       \* the orders built from mapRawOrder or mapReceipt

mapVars == <<mapLineItem, mapRawOrder, mapReceipt, mapUrls, mapItem, mapOrder>>

\* ------------------------------------------------------------ the log buffer
\* number of threads that log
MaxThreads == 2
\* number of app_log calls
MaxAppends == 3

VARIABLES
    pending,       \* log.rs:22-27 per thread: the entry built, not yet pushed
    built,         \* the number of entries built
    appended,      \* every entry pushed, in the order of the pushes
    snapshot       \* log.rs:36-39 what app_logs_snapshot returned last

logVars == <<pending, built, appended, snapshot>>

vars == <<tokVars, aggVars, catVars, mapVars, logVars>>

\* Utc::now() in days
Today == now \div 86400

\* ---------------------------------------------------- strings of model.rs  
UpperChars == <<"A", "B", "C", "D", "E", "F", "G", "H", "I", "J", "K", "L", "M",
                "N", "O", "P", "Q", "R", "S", "T", "U", "V", "W", "X", "Y", "Z">>
LowerChars == <<"a", "b", "c", "d", "e", "f", "g", "h", "i", "j", "k", "l", "m",
                "n", "o", "p", "q", "r", "s", "t", "u", "v", "w", "x", "y", "z">>

\* char::to_lowercase on the upper-case characters of the inputs
LowerOf ==
    [c \in { UpperChars[k] : k \in 1..Len(UpperChars) } |->
        LowerChars[CHOOSE k \in 1..Len(UpperChars) : UpperChars[k] = c]]

\* str::to_lowercase on the characters of the inputs
to_lowercase(s) ==
    [i \in 1..Len(s) |-> IF s[i] \in DOMAIN LowerOf THEN LowerOf[s[i]] ELSE s[i]]

\* str::contains: the empty pattern is contained in every string
Contains(s, pat) ==
    \E i \in 0..(Len(s) - Len(pat)) : SubSeq(s, i + 1, i + Len(pat)) = pat

\* Option::unwrap_or
UnwrapOr(o, d) == IF o = None THEN d ELSE o[1]

\* model.rs:19-30 with the Silver keywords tested before the Gold keywords
from_string_silver_first(s) ==
    LET lower == to_lowercase(s)
    IN  IF \/ Contains(lower, <<"s", "i", "l", "v", "e", "r">>)
           \/ Contains(lower, <<"s", "t", "e", "r", "l", "i", "n", "g">>)
           \/ Contains(lower, <<"9", "2", "5">>)
        THEN "Silver"
        ELSE IF \/ Contains(lower, <<"g", "o", "l", "d">>)
                \/ Contains(lower, <<"1", "4", "k">>)
                \/ Contains(lower, <<"1", "8", "k">>)
                \/ Contains(lower, <<"1", "0", "k">>)
        THEN "Gold"
        ELSE IF \/ Contains(lower, <<"b", "r", "o", "n", "z", "e">>)
                \/ Contains(lower, <<"b", "r", "a", "s", "s">>)
        THEN "Bronze"
        ELSE "Unknown"

\* model.rs:19-30 MetalType::from_string
from_string(s) ==
    LET lower == to_lowercase(s)
    IN  IF \/ Contains(lower, <<"g", "o", "l", "d">>)
           \/ Contains(lower, <<"1", "4", "k">>)
           \/ Contains(lower, <<"1", "8", "k">>)
           \/ Contains(lower, <<"1", "0", "k">>)
        THEN "Gold"
        ELSE IF \/ Contains(lower, <<"s", "i", "l", "v", "e", "r">>)
                \/ Contains(lower, <<"s", "t", "e", "r", "l", "i", "n", "g">>)
                \/ Contains(lower, <<"9", "2", "5">>)
        THEN "Silver"
        ELSE IF \/ Contains(lower, <<"b", "r", "o", "n", "z", "e">>)
                \/ Contains(lower, <<"b", "r", "a", "s", "s">>)
        THEN "Bronze"
        ELSE "Unknown"

\* ------------------------------------------------------------------ log.rs
\* log.rs:10-14 LogEntry: the level, the message's fixed text, the number
\* formatted into it (0 when the message has none) and the text formatted
\* into it (None when the message has none)
LogEntryWith(level, message, n, shown) ==
    [level |-> level, message |-> message, n |-> n, text |-> shown]

LogEntry(level, message, n) == LogEntryWith(level, message, n, None)

\* log.rs:21-34 with the newest entries drained instead of the oldest
app_log_drain_newest(v, entry) ==
    LET pushed == Append(v, entry)
    IN  IF Len(pushed) > MAX_LOGS THEN SubSeq(pushed, 1, MAX_LOGS) ELSE pushed

\* log.rs:21-34 app_log on the buffer v: push, then drain the oldest entries
\* over MAX_LOGS
app_log(v, entry) ==
    LET pushed == Append(v, entry)
        n == Len(pushed)
    IN  IF n > MAX_LOGS THEN SubSeq(pushed, n - MAX_LOGS + 1, n) ELSE pushed

\* what the interpolated parts of an error message carry: an HTTP status, a
\* response body, the offset in the URL a transport error prints, and the
\* preview of a body that was not decoded
NoDetail == [status |-> None, body |-> "", url_offset |-> None, preview |-> None]

\* Result<Vec<Order>, String>
OkOrders(os) == [ok |-> TRUE, orders |-> os, err |-> "", detail |-> NoDetail]
ErrOrders(e) == [ok |-> FALSE, orders |-> <<>>, err |-> e, detail |-> NoDetail]
ErrOrdersWith(e, d) == [ok |-> FALSE, orders |-> <<>>, err |-> e, detail |-> d]
NoOrders == [ok |-> FALSE, orders |-> <<>>, err |-> "(none)", detail |-> NoDetail]

\* ----------------------------------------------------------------- numbers
\* a whole number that can pass 2^31: <<hi, lo>> stands for hi * 65536 + lo
\* with 0 <= lo < 65536 (u32 quantities, and the f64 sums made from them)
Wide(hi, lo) == <<hi + (lo \div 65536), lo % 65536>>

WideAdd(a, b) == Wide(a[1] + b[1], a[2] + b[2])

\* a small whole f64 times a wide number
WideMul(p, w) == Wide(p * w[1], p * w[2])

WidePositive(w) == w[1] > 0 \/ (w[1] = 0 /\ w[2] > 0)

\* shopify.rs:168, etsy.rs:412 `as u32` of an i32: the value modulo 2^32
AsU32(q) == Wide(IF q < 0 THEN 65536 ELSE 0, q)

Digits == <<"0", "1", "2", "3", "4", "5", "6", "7", "8", "9">>

\* char::is_numeric on the characters of the inputs
IsNumeric(c) == \E k \in 1..Len(Digits) : Digits[k] = c

DigitValue(c) == (CHOOSE k \in 1..Len(Digits) : Digits[k] = c) - 1

RECURSIVE ParseDigits(_)
ParseDigits(s) ==
    IF s = <<>> THEN 0
    ELSE ParseDigits(SubSeq(s, 1, Len(s) - 1)) * 10 + DigitValue(s[Len(s)])

\* str::parse::<f64> on the strings of the inputs: an optional sign and
\* digits, or a string no number is written as
ParseF64(s) ==
    LET signed == s # <<>> /\ s[1] \in {"-", "+"}
        body == IF signed THEN Tail(s) ELSE s
    IN  IF body = <<>> \/ \E i \in 1..Len(body) : ~IsNumeric(body[i]) THEN None
        ELSE Some(IF signed /\ s[1] = "-" THEN 0 - ParseDigits(body) ELSE ParseDigits(body))

\* ----------------------------------------------------- fetch_shopify_orders
\* shopify.rs:53-57
ShopifyProperty(name, value) == [name |-> name, value |-> value]

\* shopify.rs:44-51
ShopifyLineItem(name, quantity, price, variant_title, properties) ==
    [name |-> name, quantity |-> quantity, price |-> price,
     variant_title |-> variant_title, properties |-> properties]

\* shopify.rs:38-42
ShopifyCustomer(first_name, last_name) == [first_name |-> first_name, last_name |-> last_name]

\* shopify.rs:26-36 the fields of a raw order the mapping reads; created_at
\* is the day parse_from_rfc3339 reads from it, None when it rejects the string
RawShopifyOrder(created_at, customer, line_items, total_price, currency) ==
    [created_at |-> created_at, customer |-> customer, line_items |-> line_items,
     total_price |-> total_price, currency |-> currency]

\* str::find: the index of the first occurrence
Find(s, pat) ==
    IF Contains(s, pat)
    THEN Some(CHOOSE i \in 0..(Len(s) - Len(pat)) :
                /\ SubSeq(s, i + 1, i + Len(pat)) = pat
                /\ \A j \in 0..(i - 1) : SubSeq(s, j + 1, j + Len(pat)) # pat)
    ELSE None

\* shopify.rs:87-90 take_while over the characters of a size
RECURSIVE TakeSizeChars(_)
TakeSizeChars(s) ==
    IF s = <<>> THEN <<>>
    ELSE IF IsNumeric(Head(s)) \/ Head(s) \in {".", "/", " "}
    THEN <<Head(s)>> \o TakeSizeChars(Tail(s))
    ELSE <<>>

\* shopify.rs:82
RingPatterns == << <<"s", "i", "z", "e", " ">>, <<"r", "i", "n", "g", " ", "s", "i", "z", "e", " ">>, <<"s", "z", " ">>, <<"u", "s", " ">>, <<"u", "k", " ">> >>

\* shopify.rs:83-94 the patterns from the k-th on
RECURSIVE TextRingSize(_, _)
TextRingSize(name, k) ==
    IF k > Len(RingPatterns) THEN None
    ELSE LET pattern == RingPatterns[k]
             idx == Find(to_lowercase(name), pattern)
         IN  IF idx = None THEN TextRingSize(name, k + 1)
             ELSE LET start == idx[1] + Len(pattern)
                      remaining == SubSeq(name, start + 1, Len(name))
                      size == TakeSizeChars(remaining)
                  IN  IF Trim(size) # <<>> THEN Some(Trim(size))
                      ELSE TextRingSize(name, k + 1)

\* shopify.rs:74-79 the properties whose name holds "size" or "ring"
SizeProperties(properties) ==
    SelectSeq(UnwrapOr(properties, <<>>),
              LAMBDA prop : \/ Contains(to_lowercase(prop.name), <<"s", "i", "z", "e">>)
                            \/ Contains(to_lowercase(prop.name), <<"r", "i", "n", "g">>))

\* shopify.rs:72-97 with the item text searched before the properties
extract_ring_size_text_first(name, properties) ==
    IF TextRingSize(name, 1) # None THEN TextRingSize(name, 1)
    ELSE IF SizeProperties(properties) # <<>> THEN Some(SizeProperties(properties)[1].value)
    ELSE None

\* shopify.rs:72-97 extract_ring_size
extract_ring_size(name, properties) ==
    IF SizeProperties(properties) # <<>> THEN Some(SizeProperties(properties)[1].value)
    ELSE TextRingSize(name, 1)

\* shopify.rs:158-174 one line item as an OrderItem
ShopifyItem(li) ==
    LET full_name == li.name \o <<" ">> \o UnwrapOr(li.variant_title, <<>>)
    IN  [name |-> li.name,
         quantity |-> AsU32(li.quantity),
         price |-> UnwrapOr(ParseF64(li.price), 0),
         metal_type |-> from_string(full_name),
         ring_size |-> extract_ring_size(full_name, li.properties),
         variant_info |-> li.variant_title,
         image_url |-> None]

\* shopify.rs:142-153 customer_name
ShopifyCustomerName(customer) ==
    IF customer = None THEN <<"U", "n", "k", "n", "o", "w", "n", " ", "C", "u", "s", "t", "o", "m", "e", "r">>
    ELSE Trim(UnwrapOr(customer[1].first_name, <<>>) \o <<" ">>
              \o UnwrapOr(customer[1].last_name, <<>>))

\* shopify.rs:138-140 with the epoch for now when created_at is rejected
ShopifyOrderDateEpoch(created_at) == IF created_at = None THEN 0 ELSE created_at[1]

\* shopify.rs:138-140 order_date
ShopifyOrderDate(created_at) == IF created_at = None THEN Today ELSE created_at[1]

\* shopify.rs:137-201 one raw order as an Order (so.id is its position)
ShopifyOrder(i, so) ==
    LET order_date == ShopifyOrderDate(so.created_at)
    IN  [source |-> "Shopify", id |-> i,
         customer_name |-> ShopifyCustomerName(so.customer),
         items |-> [k \in 1..Len(so.line_items) |-> ShopifyItem(so.line_items[k])],
         order_date |-> order_date, due_date |-> order_date + DUE_DAYS,
         total_price |-> Wide(0, UnwrapOr(ParseF64(so.total_price), 0)),
         currency |-> so.currency]

\* the raw orders an orders.json answer of the fetch cycle carries: one with
\* a created_at that is rejected, one placed yesterday
ShopifyRawOrders ==
    { RawShopifyOrder(None, None, <<ShopifyLineItem(<<"a">>, 1, <<"1", "0">>, None, None)>>,
                      <<"1", "0">>, "USD"),
      RawShopifyOrder(Some(NowDay - 1), Some(ShopifyCustomer(Some(<<"A">>), Some(<<"L">>))),
                      <<ShopifyLineItem(<<"b">>, 2, <<"1", "0">>, None, None)>>, <<"2", "0">>, "USD") }

\* the bodies a 2xx orders.json response can carry
ShopifyBatches == UNION { [1..n -> ShopifyRawOrders] : n \in 0..MaxBatch }

ShopifyResponses ==
    { [kind |-> k, body |-> <<>>] : k \in {"transport", "status", "parse"} }
    \cup { [kind |-> "ok", body |-> b] : b \in ShopifyBatches }

\* shopify.rs:115-205 from the response on
fetch_shopify_orders(resp) ==
    CASE resp.kind = "transport" -> ErrOrders("Shopify request failed")
      [] resp.kind = "status" -> ErrOrders("Shopify API error")
      [] resp.kind = "parse" -> ErrOrders("Failed to parse Shopify response")
      [] OTHER -> OkOrders([i \in 1..Len(resp.body) |-> ShopifyOrder(i, resp.body[i])])

\* -------------------------------------------------------- fetch_etsy_orders
\* etsy.rs:327 without the magnitude test: every timestamp read as seconds
EtsyInstantSecondsOnly(ts) == ts

\* etsy.rs:327-331, 343-347: the instant of a raw timestamp
EtsyInstant(ts) == IF ts > MILLIS_ABOVE THEN ts \div 1000 ELSE ts

\* etsy.rs:154-159
EtsyMoney(amount, divisor, currency_code) ==
    [amount |-> amount, divisor |-> divisor, currency_code |-> currency_code]

\* etsy.rs:176-180
EtsyVariation(formatted_name, formatted_value) ==
    [formatted_name |-> formatted_name, formatted_value |-> formatted_value]

\* etsy.rs:161-174
EtsyTransaction(title, quantity, price, variations, listing_id, listing_image_id, expected_ship_date) ==
    [title |-> title, quantity |-> quantity, price |-> price, variations |-> variations,
     listing_id |-> listing_id, listing_image_id |-> listing_image_id,
     expected_ship_date |-> expected_ship_date]

\* etsy.rs:138-152 the fields of a receipt the mapping reads.  `day` is the
\* day the order was placed (not a field of the receipt: create_timestamp is
\* what the code reads)
EtsyReceipt(day, name, create_timestamp, grandtotal, transactions) ==
    [day |-> day, name |-> name, create_timestamp |-> create_timestamp,
     grandtotal |-> grandtotal, transactions |-> transactions]

\* the receipts a page of the fetch cycle can carry: create_timestamp is in
\* seconds for the first and third receipt and in milliseconds for the second
EtsyReceipts ==
    { EtsyReceipt(NowDay - 10, <<"A">>, NowDay - 10,
                  Some(EtsyMoney(Some(1500), Some(100), Some("EUR"))),
                  Some(<<EtsyTransaction(Some(<<"a">>), Some(1),
                                         Some(EtsyMoney(Some(1500), Some(100), Some("EUR"))),
                                         None, Some(7), Some(1), None)>>)),
      EtsyReceipt(NowDay - 60, <<" ">>, (NowDay - 60) * 1000, None,
                  Some(<<EtsyTransaction(Some(<<"b">>), Some(2),
                                         Some(EtsyMoney(Some(1000), None, None)),
                                         None, Some(7), Some(1), Some(NowDay + 13)),
                         EtsyTransaction(Some(<<"c">>), None, None, None, Some(3), Some(2), None)>>)),
      EtsyReceipt(NowDay - 70, <<"B">>, NowDay - 70, None, None) }

\* the server returns at most `limit` receipts in a page
EtsyPages == UNION { [1..n -> EtsyReceipts] : n \in 0..LIMIT }

\* the `count` field of a page: a total larger than the shop holds
EtsyCounts == {Some(1000)}

\* what reqwest prints for a transport error: with or without the URL
EtsyTransportDetails(off) ==
    { [status |-> None, body |-> "", url_offset |-> u, preview |-> None] :
        u \in {None, Some(off)} }

\* etsy.rs:261-272 the status and the body of a non-2xx answer; an empty
\* body is replaced by a hint
EtsyStatusDetails ==
    { [status |-> Some(500), body |-> IF b = "" THEN "Check x-api-key and OAuth token" ELSE b,
       url_offset |-> None, preview |-> None] : b \in {"", "Internal error"} }

\* a string as runs of equal characters: n times the character ch
Run(ch, n) == [ch |-> ch, n |-> n]

\* char::len_utf8 on the characters of the inputs: "a" is one byte long,
\* "U+00E9" (e with acute) two
LenUtf8(ch) == IF ch = "U+00E9" THEN 2 ELSE 1

\* str::len: the length in bytes
RECURSIVE ByteLen(_)
ByteLen(runs) ==
    IF runs = <<>> THEN 0
    ELSE Head(runs).n * LenUtf8(Head(runs).ch) + ByteLen(Tail(runs))

\* &s[..k]: the first k bytes, None when the index panics because byte k is
\* inside a character
RECURSIVE SliceTo(_, _)
SliceTo(runs, k) ==
    IF k = 0 \/ runs = <<>> THEN Some(<<>>)
    ELSE LET h == Head(runs)
             w == LenUtf8(h.ch)
         IN  IF h.n * w <= k
             THEN LET rest == SliceTo(Tail(runs), k - h.n * w)
                  IN  IF rest = None THEN None ELSE Some(<<h>> \o rest[1])
             ELSE IF k % w # 0 THEN None
             ELSE Some(<<Run(h.ch, k \div w)>>)

\* etsy.rs:279-283 the preview of a body that was not decoded: its text and
\* whether "... (truncated)" follows it; None when the slice panics
Preview(raw) ==
    IF ByteLen(raw) > PREVIEW_BYTES
    THEN LET cut == SliceTo(raw, PREVIEW_BYTES)
         IN  IF cut = None THEN None ELSE Some([text |-> cut[1], truncated |-> TRUE])
    ELSE Some([text |-> raw, truncated |-> FALSE])

\* the bodies serde_json rejects: a short one, and two longer than the
\* preview, of one-byte characters, and with a two-byte character across the
\* byte the preview ends at
UndecodedBodies ==
    { <<Run("a", 20)>>,
      <<Run("a", PREVIEW_BYTES + 500)>>,
      <<Run("a", PREVIEW_BYTES - 1), Run("U+00E9", 1), Run("a", 10)>> }

\* the answers to the receipts request for offset `off`
EtsyPageResponses(off) ==
    { [kind |-> "transport", results |-> <<>>, count |-> None, detail |-> d, raw_body |-> <<>>] :
        d \in EtsyTransportDetails(off) }
    \cup { [kind |-> "status", results |-> <<>>, count |-> None, detail |-> d, raw_body |-> <<>>] :
        d \in EtsyStatusDetails }
    \cup { [kind |-> "read", results |-> <<>>, count |-> None, detail |-> NoDetail,
            raw_body |-> <<>>] }
    \cup { [kind |-> "parse", results |-> <<>>, count |-> None, detail |-> NoDetail,
            raw_body |-> b] : b \in UndecodedBodies }
    \cup { [kind |-> "ok", results |-> p, count |-> c, detail |-> NoDetail, raw_body |-> <<>>] :
        p \in EtsyPages, c \in EtsyCounts }

\* r.transactions.as_deref().unwrap_or(&[])
Transactions(r) == IF r.transactions = None THEN <<>> ELSE r.transactions[1]

\* etsy.rs:338-340 with the first expected_ship_date for the largest
RECURSIVE FirstShip(_)
FirstShip(ships) ==
    IF ships = <<>> THEN None
    ELSE IF Head(ships) # None THEN Head(ships)
    ELSE FirstShip(Tail(ships))

\* Iterator::max over the transactions that carry expected_ship_date
RECURSIVE MaxShip(_)
MaxShip(ships) ==
    IF ships = <<>> THEN None
    ELSE LET rest == MaxShip(Tail(ships))
             h == Head(ships)
         IN  IF h = None THEN rest
             ELSE IF rest = None THEN h
             ELSE IF rest[1] > h[1] THEN rest ELSE h


\* etsy.rs:352-353, 374-375 amount / divisor.unwrap_or(100).max(1), as f64;
\* the amounts of the inputs are multiples of their divisors
MoneyValue(m) ==
    LET d == UnwrapOr(m.divisor, 100)
    IN  UnwrapOr(m.amount, 0) \div (IF d < 1 THEN 1 ELSE d)

\* etsy.rs:378-390 variant_parts
VariantParts(variations) ==
    LET vs == UnwrapOr(variations, <<>>)
        kept == SelectSeq(vs, LAMBDA v : ~(/\ UnwrapOr(v.formatted_name, <<>>) = <<>>
                                           /\ UnwrapOr(v.formatted_value, <<>>) = <<>>))
    IN  [k \in 1..Len(kept) |->
            UnwrapOr(kept[k].formatted_name, <<>>) \o <<":", " ">>
            \o UnwrapOr(kept[k].formatted_value, <<>>)]

\* [String]::join(", ")
RECURSIVE JoinParts(_)
JoinParts(parts) ==
    IF parts = <<>> THEN <<>>
    ELSE IF Len(parts) = 1 THEN parts[1]
    ELSE parts[1] \o <<",", " ">> \o JoinParts(Tail(parts))

\* etsy.rs:406-409 image_url: the URL stored for the transaction's
\* (listing_id, listing_image_id)
ItemImageUrl(t, urls) ==
    IF t.listing_id = None \/ t.listing_image_id = None THEN None
    ELSE LET hits == { e \in urls : e[1] = <<t.listing_id[1], t.listing_image_id[1]>> }
         IN  IF hits = {} THEN None ELSE Some((CHOOSE e \in hits : TRUE)[2])

\* etsy.rs:367-419 one transaction as an OrderItem
EtsyItem(t, urls) ==
    LET title == UnwrapOr(t.title, <<"I", "t", "e", "m">>)
        qty == UnwrapOr(t.quantity, 1)
        price_val == IF t.price = None THEN 0 ELSE MoneyValue(t.price[1])
        variant_parts == VariantParts(t.variations)
        variant_info == IF variant_parts = <<>> THEN None ELSE Some(JoinParts(variant_parts))
        full_name == title \o <<" ">> \o UnwrapOr(variant_info, <<>>)
        sized == SelectSeq(variant_parts,
                           LAMBDA p : \/ Contains(to_lowercase(p), <<"r", "i", "n", "g">>)
                                      \/ Contains(to_lowercase(p), <<"s", "i", "z", "e">>))
    IN  [name |-> title,
         quantity |-> AsU32(qty),
         price |-> price_val,
         metal_type |-> from_string(full_name),
         ring_size |-> IF sized = <<>> THEN None ELSE Some(sized[1]),
         variant_info |-> variant_info,
         image_url |-> ItemImageUrl(t, urls)]

\* Iterator::sum of price * quantity over the items
RECURSIVE ItemsTotal(_)
ItemsTotal(items) ==
    IF items = <<>> THEN Wide(0, 0)
    ELSE WideAdd(WideMul(Head(items).price, Head(items).quantity), ItemsTotal(Tail(items)))

\* etsy.rs:351-361, 422-426 with the items summed whatever the receipt's total
EtsyTotalAlwaysSummed(r, items) == ItemsTotal(items)

\* etsy.rs:351-361, 422-426 total_price
EtsyTotal(r, items) ==
    LET total_price == IF r.grandtotal = None THEN 0 ELSE MoneyValue(r.grandtotal[1])
    IN  IF total_price > 0 THEN Wide(0, total_price) ELSE ItemsTotal(items)

\* etsy.rs:354-360 currency
EtsyCurrency(r) ==
    IF r.grandtotal = None THEN "USD" ELSE UnwrapOr(r.grandtotal[1].currency_code, "USD")

\* etsy.rs:326-349, 430-449 one receipt as an Order (receipt_id is its position)
EtsyOrder(i, r, urls) ==
    LET order_date == EtsyInstant(r.create_timestamp)
        ts == Transactions(r)
        ship == MaxShip([k \in 1..Len(ts) |-> ts[k].expected_ship_date])
        items == [k \in 1..Len(ts) |-> EtsyItem(ts[k], urls)]
    IN  [source |-> "Etsy", id |-> i,
         customer_name |-> IF Trim(r.name) = <<>> THEN <<"U", "n", "k", "n", "o", "w", "n">> ELSE Trim(r.name),
         items |-> items,
         order_date |-> order_date,
         due_date |-> IF ship = None THEN order_date + DUE_DAYS ELSE EtsyInstant(ship[1]),
         total_price |-> EtsyTotal(r, items),
         currency |-> EtsyCurrency(r)]

\* etsy.rs:322-334, 451: the receipts inside the lookback window, as orders
EtsyOrders(receipts, urls) ==
    SelectSeq([i \in 1..Len(receipts) |-> EtsyOrder(i, receipts[i], urls)],
              LAMBDA o : ~(o.order_date < Today - LOOKBACK_DAYS))

EtsyPageError(kind) ==
    CASE kind = "transport" -> "Etsy request failed"
      [] kind = "status" -> "Etsy API error"
      [] kind = "read" -> "Etsy response read failed"
      [] OTHER -> "Etsy response parse failed"

\* etsy.rs:294 with the count field for the page length: go on while the
\* server says there are more receipts than were collected
MorePagesByCount(n, count, collected) == count # None /\ collected < count[1]

\* etsy.rs:294-297 `if n < LIMIT { break; }`: another page is requested
\* after a full page
MorePages(n, count, collected) == ~(n < LIMIT)

\* etsy.rs:304-306 the (listing_id, listing_image_id) of the transactions
\* that carry both, in order
TransactionKeys(ts) ==
    LET withKey == SelectSeq(ts, LAMBDA t : t.listing_id # None /\ t.listing_image_id # None)
    IN  [k \in 1..Len(withKey) |-> <<withKey[k].listing_id[1], withKey[k].listing_image_id[1]>>]

\* etsy.rs:302-309 image_keys before it is sorted
RECURSIVE PushedImageKeys(_)
PushedImageKeys(receipts) ==
    IF receipts = <<>> THEN <<>>
    ELSE TransactionKeys(Transactions(Head(receipts))) \o PushedImageKeys(Tail(receipts))

\* the order of (i64, i64)
KeyLess(a, b) == a[1] < b[1] \/ (a[1] = b[1] /\ a[2] < b[2])

\* etsy.rs:302-309 without sort_unstable and dedup
ImageKeysUnsorted(receipts) == PushedImageKeys(receipts)

\* etsy.rs:302-311 image_keys: pushed, sort_unstable, dedup
ImageKeys(receipts) ==
    LET pushed == PushedImageKeys(receipts)
        keys == { pushed[i] : i \in 1..Len(pushed) }
        rank(k) == Cardinality({ j \in keys : KeyLess(j, k) }) + 1
    IN  [i \in 1..Cardinality(keys) |-> CHOOSE k \in keys : rank(k) = i]

\* the answers to one listing image request
EtsyImageResponses ==
    { [kind |-> k, url_170x135 |-> None, url_75x75 |-> None] :
        k \in {"transport", "status", "parse"} }
    \cup { [kind |-> "ok", url_170x135 |-> u[1], url_75x75 |-> u[2]] :
        u \in { <<Some("L"), Some("S")>>, <<None, Some("S")>>, <<None, None>>,
                <<Some(""), Some("S")>> } }

\* etsy.rs:206-216 with the 75x75 URL tried before the 170x135 URL
ImageUrlSmallFirst(resp) ==
    IF resp.kind # "ok" THEN None
    ELSE LET u == IF resp.url_75x75 # None THEN resp.url_75x75 ELSE resp.url_170x135
         IN  IF u # None /\ u[1] # "" THEN u ELSE None

\* etsy.rs:206-216 the URL one answer yields, if any
ImageUrl(resp) ==
    IF resp.kind # "ok" THEN None
    ELSE LET u == IF resp.url_170x135 # None THEN resp.url_170x135 ELSE resp.url_75x75
         IN  IF u # None /\ u[1] # "" THEN u ELSE None

\* etsy.rs:214 out.insert(key, u)
InsertUrl(urls, key, u) == { e \in urls : e[1] # key } \cup { <<key, u>> }

\* ------------------------------------------------------------ fetch_all_orders
\* the place of s[i] after a sort by due_date that puts equal elements in
\* reverse input order
RankByDueUnstable(s, i) ==
    Cardinality({ j \in 1..Len(s) : s[j].due_date < s[i].due_date })
    + Cardinality({ j \in 1..Len(s) : j > i /\ s[j].due_date = s[i].due_date }) + 1

\* the place of s[i] after a stable sort by due_date (slice::sort_by is
\* stable): behind every smaller element and every equal element before it
RankByDue(s, i) ==
    Cardinality({ j \in 1..Len(s) : s[j].due_date < s[i].due_date })
    + Cardinality({ j \in 1..Len(s) : j < i /\ s[j].due_date = s[i].due_date }) + 1

\* api.rs:33 all_orders.sort_by(|a, b| a.due_date.cmp(&b.due_date))
SortByDue(s) ==
    LET rank == [i \in 1..Len(s) |-> RankByDue(s, i)]
    IN  [k \in 1..Len(s) |-> s[CHOOSE i \in 1..Len(s) : rank[i] = k]]

\* format!("Shopify: {}", e), format!("Etsy: {}", e)
SourceError(prefix, e) == <<prefix, e>>

\* api.rs:23-28 as join! would have it: Etsy is launched with Shopify
EtsyMayStartConcurrent == shopPc # "notStarted"

\* api.rs:23-28: fetch_etsy_orders is called after the Shopify fetch was awaited
EtsyMayStart == shopPc = "done"

\* api.rs:19-23, shopify.rs:104-121 fetch_all_orders up to the Shopify request
AggStart ==
    /\ aggPc = "idle"
    /\ aggPc' = "running"
    /\ shopPc' = "wait"
    /\ shopReqs' = shopReqs + 1
    /\ all_orders' = <<>>
    /\ errors' = <<>>
    /\ logs' = app_log(logs, LogEntry("INFO", "Shopify: requesting orders (last 60 days)...", 0))
    /\ UNCHANGED <<etsyPc, shopify_response, aggResult, shopResult, etsyResult, offset, all_receipts,
                   receiptReqs, lastPage, raw_body, image_response, image_keys, imageReqs, image_urls, tokVars, catVars, mapVars, logVars>>

\* api.rs:25 with `?` for the match: a Shopify error is lost with its slot
ShopifyCollectDropsError(res) ==
    /\ all_orders' = all_orders \o res.orders
    /\ errors' = errors

\* api.rs:23-26
ShopifyCollect(res) ==
    /\ all_orders' = IF res.ok THEN all_orders \o res.orders ELSE all_orders
    /\ errors' = IF res.ok THEN errors ELSE Append(errors, SourceError("Shopify: ", res.err))

\* shopify.rs:115-205 the Shopify response arrives; api.rs:23-26
ShopifyResponse ==
    /\ shopPc = "wait"
    /\ \E resp \in ShopifyResponses :
        /\ shopResult' = fetch_shopify_orders(resp)
        /\ shopify_response' = resp.body
        /\ ShopifyCollect(shopResult')
        /\ logs' = IF resp.kind = "ok"
                   THEN app_log(logs, LogEntry("INFO", "Shopify: got {} orders, mapping...",
                                               Len(resp.body)))
                   ELSE logs
    /\ shopPc' = "done"
    /\ UNCHANGED <<aggPc, etsyPc, aggResult, etsyResult, offset, all_receipts,
                   receiptReqs, shopReqs, lastPage, raw_body, image_response, image_keys, imageReqs, image_urls,
                   tokVars, catVars, mapVars, logVars>>

\* etsy.rs:228-230 fetch_etsy_orders is called and asks for a token
EtsyStart ==
    /\ aggPc = "running"
    /\ etsyPc = "notStarted"
    /\ EtsyMayStart
    /\ logs' = app_log(logs, LogEntry("INFO", "Etsy: getting access token...", 0))
    /\ GetStartBody
    /\ etsyPc' = "token"
    /\ UNCHANGED <<aggPc, shopPc, all_orders, errors, aggResult, shopResult,
                   etsyResult, offset, all_receipts, receiptReqs, shopReqs, shopify_response, lastPage, raw_body, image_response,
                   image_keys, imageReqs, image_urls, catVars, mapVars, logVars>>

\* etsy.rs:74 the refresh response arrives inside fetch_etsy_orders
EtsyRefreshResponse ==
    /\ etsyPc = "token"
    /\ RefreshResponseBody(FetchResponses(getRefresh))
    /\ UNCHANGED <<aggVars, catVars, mapVars, logVars>>

\* api.rs:28 with the receipts collected so far kept when the fetch fails
EtsyCollectKeepsPartial(res) ==
    /\ etsyResult' = res
    /\ etsyPc' = "done"
    /\ all_orders' = all_orders \o (IF res.ok THEN res.orders ELSE EtsyOrders(all_receipts, image_urls))
    /\ errors' = IF res.ok THEN errors ELSE Append(errors, SourceError("Etsy: ", res.err))

\* api.rs:28-31
EtsyCollect(res) ==
    /\ etsyResult' = res
    /\ etsyPc' = "done"
    /\ all_orders' = IF res.ok THEN all_orders \o res.orders ELSE all_orders
    /\ errors' = IF res.ok THEN errors ELSE Append(errors, SourceError("Etsy: ", res.err))

\* etsy.rs:230 with unwrap_or_default for `?`: the page loop runs without a token
TokenErrorIgnored == FALSE

\* etsy.rs:230 `?`: a token error ends fetch_etsy_orders
TokenErrorReturns == ~getResult.ok

\* etsy.rs:230-259 the token call returned: leave with its error, or send
\* the request for offset 0
EtsyTokenDone ==
    /\ etsyPc = "token"
    /\ getPc = "done"
    /\ IF TokenErrorReturns
       THEN /\ EtsyCollect(ErrOrders(getResult.err))
            /\ UNCHANGED <<offset, all_receipts, receiptReqs, logs>>
       ELSE /\ etsyPc' = "page"
            /\ offset' = 0
            /\ all_receipts' = <<>>
            /\ receiptReqs' = <<0>>
            /\ logs' = app_log(app_log(app_log(logs,
                         LogEntry("INFO", "Etsy: token OK, requesting receipts...", 0)),
                         LogEntry("INFO", "Etsy: fetching receipts (was_paid={}, was_shipped={})", 0)),
                         LogEntry("INFO", "Etsy: GET receipts offset={}", 0))
            /\ UNCHANGED <<all_orders, errors, etsyResult>>
    /\ UNCHANGED <<aggPc, shopPc, aggResult, shopResult, shopReqs, shopify_response, lastPage, raw_body, image_response,
                   image_keys, imageReqs, image_urls, tokVars, catVars, mapVars, logVars>>

\* etsy.rs:320-455 the image lookups are over: map the receipts inside the
\* window and return
EtsyMapAndReturn(lg, receipts, urls) ==
    LET orders == EtsyOrders(receipts, urls)
    IN  /\ logs' = app_log(app_log(lg,
                     LogEntry("INFO", "Etsy: got {} image URLs, mapping to orders...", Cardinality(urls))),
                     LogEntry("INFO", "Etsy: built {} orders", Len(orders)))
        /\ EtsyCollect(OkOrders(orders))

\* etsy.rs:253-318 a receipts response arrives: fail, ask for the next
\* page, or collect the image keys and ask for the first image
EtsyPageResponse ==
    /\ etsyPc = "page"
    /\ \E resp \in EtsyPageResponses(offset) :
        IF resp.kind = "parse"
        THEN /\ raw_body' = Some(resp.raw_body)
             /\ IF Preview(resp.raw_body) = None
                THEN /\ etsyPc' = "panicked"
                     /\ aggPc' = "panicked"
                     /\ UNCHANGED <<all_orders, errors, etsyResult, logs>>
                ELSE /\ EtsyCollect(ErrOrdersWith(EtsyPageError(resp.kind),
                                       [NoDetail EXCEPT !.preview = Preview(resp.raw_body)]))
                     /\ logs' = app_log(logs, LogEntryWith("ERROR", "Etsy parse (offset={}): {}",
                                                           offset, Preview(resp.raw_body)))
                     /\ UNCHANGED aggPc
             /\ UNCHANGED <<offset, all_receipts, receiptReqs, lastPage, image_keys,
                            imageReqs, image_urls, image_response>>
        ELSE IF resp.kind # "ok"
        THEN /\ EtsyCollect(ErrOrdersWith(EtsyPageError(resp.kind), resp.detail))
             /\ UNCHANGED <<offset, all_receipts, receiptReqs, lastPage, image_keys,
                            imageReqs, image_urls, logs, raw_body, image_response, aggPc>>
        ELSE LET n == Len(resp.results)
                 got == all_receipts \o resp.results
                 lg == app_log(logs, LogEntry("INFO",
                         "Etsy: page offset={} got {} receipts (total so far: {})", offset))
             IN  /\ Len(got) <= MaxReceipts
                 /\ UNCHANGED <<raw_body, image_response, aggPc>>
                 /\ all_receipts' = got
                 /\ lastPage' = [seen |-> TRUE, n |-> n, count |-> resp.count]
                 /\ IF MorePages(n, resp.count, Len(got))
                    THEN /\ offset' = offset + LIMIT
                         /\ receiptReqs' = Append(receiptReqs, offset + LIMIT)
                         /\ logs' = app_log(lg, LogEntry("INFO", "Etsy: GET receipts offset={}",
                                                         offset + LIMIT))
                         /\ UNCHANGED <<etsyPc, all_orders, errors, etsyResult, image_keys,
                                        imageReqs, image_urls>>
                    ELSE LET keys == ImageKeys(got)
                             lg2 == app_log(lg, LogEntry("INFO",
                                      "Etsy: {} receipts total, fetching listing images...",
                                      Len(got)))
                         IN  /\ image_keys' = keys
                             /\ image_urls' = {}
                             /\ UNCHANGED offset
                             /\ UNCHANGED receiptReqs
                             /\ IF keys = <<>>
                                THEN /\ EtsyMapAndReturn(lg2, got, {})
                                     /\ UNCHANGED imageReqs
                                ELSE /\ etsyPc' = "images"
                                     /\ imageReqs' = <<keys[1]>>
                                     /\ logs' = lg2
                                     /\ UNCHANGED <<all_orders, errors, etsyResult>>
    /\ UNCHANGED <<shopPc, aggResult, shopResult, shopReqs, shopify_response, tokVars,
                   catVars, mapVars, logVars>>

\* etsy.rs:195-220, 320-455 the loop over the keys goes on with `urls` found:
\* ask for the next image, or map the receipts and return
EtsyNextImage(urls) ==
    /\ image_urls' = urls
    /\ IF Len(imageReqs) < Len(image_keys)
       THEN /\ imageReqs' = Append(imageReqs, image_keys[Len(imageReqs) + 1])
            /\ UNCHANGED <<etsyPc, all_orders, errors, etsyResult, logs>>
       ELSE /\ EtsyMapAndReturn(logs, all_receipts, urls)
            /\ UNCHANGED imageReqs

\* etsy.rs:200-207 `.send().await` of an image request resolves: the key is
\* skipped on a transport error and on a non-2xx status, the body of a 2xx
\* answer is awaited
EtsyImageResponse ==
    /\ etsyPc = "images"
    /\ image_response = None
    /\ \E resp \in EtsyImageResponses :
        IF resp.kind \in {"transport", "status"}
        THEN /\ EtsyNextImage(image_urls)
             /\ UNCHANGED image_response
        ELSE /\ image_response' = Some(resp)
             /\ UNCHANGED <<etsyPc, all_orders, errors, etsyResult, logs, imageReqs,
                            image_urls>>
    /\ UNCHANGED <<aggPc, shopPc, aggResult, shopResult, offset, all_receipts,
                   receiptReqs, shopReqs, shopify_response, lastPage, raw_body, image_keys,
                   tokVars, catVars, mapVars, logVars>>

\* etsy.rs:208-216 `.json().await` of an image answer resolves: keep its URL
\* if it has one, then go on
EtsyImageStore ==
    /\ etsyPc = "images"
    /\ image_response # None
    /\ LET u == ImageUrl(image_response[1])
       IN  EtsyNextImage(IF u = None THEN image_urls
                         ELSE InsertUrl(image_urls, imageReqs[Len(imageReqs)], u[1]))
    /\ image_response' = None
    /\ UNCHANGED <<aggPc, shopPc, aggResult, shopResult, offset, all_receipts,
                   receiptReqs, shopReqs, shopify_response, lastPage, raw_body, image_keys,
                   tokVars, catVars, mapVars, logVars>>

\* api.rs:33-37 both fetches were awaited: sort and return
AggFinish ==
    /\ aggPc = "running"
    /\ shopPc = "done"
    /\ etsyPc = "done"
    /\ aggPc' = "done"
    /\ aggResult' = [ok |-> TRUE, orders |-> SortByDue(all_orders), errors |-> errors]
    /\ UNCHANGED <<shopPc, etsyPc, all_orders, errors, shopResult, etsyResult,
                   offset, all_receipts, receiptReqs, shopReqs, shopify_response, lastPage, raw_body, image_response, image_keys,
                   imageReqs, image_urls, logs, tokVars, catVars, mapVars, logVars>>

\* ---------------------------------------------------- the catalog matcher
\* model.rs:167-174 with the sizes compared as written
ring_matches_untrimmed(row_ring_, item_ring_) ==
    IF row_ring_ = None THEN TRUE
    ELSE IF row_ring_[1] = <<>> \/ row_ring_[1] = <<"N", "/", "A">> THEN TRUE
    ELSE IF item_ring_ # None THEN row_ring_[1] = item_ring_[1]
    ELSE FALSE

\* model.rs:167-174 ring_matches: the match arms in order
ring_matches(row_ring_, item_ring_) ==
    IF row_ring_ = None THEN TRUE
    ELSE IF row_ring_[1] = <<>> \/ row_ring_[1] = <<"N", "/", "A">> THEN TRUE
    ELSE IF item_ring_ # None THEN Trim(row_ring_[1]) = Trim(item_ring_[1])
    ELSE FALSE

\* model.rs:127-130 ItemCostWeight (f64 values are whole numbers here)
ItemCostWeight(cost, weight) == [cost_usd |-> cost, weight_g |-> weight]

\* model.rs:177-196 the (cost, weight) of the row for the metal
CostAndWeight(row, metal) ==
    CASE metal = "Silver" -> <<UnwrapOr(row.silver_usd, 0), UnwrapOr(row.silver_g, 0)>>
      [] metal = "Gold" -> <<UnwrapOr(row.gold_usd, 0), UnwrapOr(row.gold_g, 0)>>
      [] metal = "Bronze" -> <<UnwrapOr(row.bronze_usd, 0), UnwrapOr(row.bronze_g, 0)>>
      [] OTHER -> <<UnwrapOr(row.silver_usd, 0) + UnwrapOr(row.gold_usd, 0)
                      + UnwrapOr(row.bronze_usd, 0),
                    UnwrapOr(row.silver_g, 0) + UnwrapOr(row.gold_g, 0)
                      + UnwrapOr(row.bronze_g, 0)>>

\* model.rs:197-204 without the test: the pair is returned whatever it holds
pick_cost_weight_always_some(row, metal) ==
    LET cw == CostAndWeight(row, metal)
    IN  Some(ItemCostWeight(cw[1], cw[2]))

\* model.rs:176-205 pick_cost_weight
pick_cost_weight(row, metal) ==
    LET cw == CostAndWeight(row, metal)
    IN  IF cw[1] > 0 \/ cw[2] > 0 THEN Some(ItemCostWeight(cw[1], cw[2])) ELSE None

\* model.rs:134 item.name.to_lowercase().trim()
ItemNameNormalized(it) == Trim(to_lowercase(it.name))

\* model.rs:135 item.ring_size.as_ref().map(|s| s.trim().to_string())
ItemRing(it) == IF it.ring_size = None THEN None ELSE Some(Trim(it.ring_size[1]))

\* model.rs:139-143 some product key of the row names the item
KeysHit(it, row) ==
    /\ row.product_keys # None
    /\ \E i \in 1..Len(row.product_keys[1]) :
          LET k == to_lowercase(Trim(row.product_keys[1][i]))
          IN  k = ItemNameNormalized(it) \/ Contains(to_lowercase(it.name), k)

\* model.rs:153-156 the design key of the row names the item
DesignHit(it, row) ==
    LET design_lower == to_lowercase(row.design_key)
    IN  \/ design_lower = ItemNameNormalized(it)
        \/ Contains(ItemNameNormalized(it), design_lower)
        \/ Contains(design_lower, ItemNameNormalized(it))

\* what a loop over the rows leaves: it returned `value`, or ran to its end
Returned(v) == [returned |-> TRUE, value |-> v]
NotReturned == [returned |-> FALSE, value |-> None]

\* model.rs:138-149 the loop over product_keys, from row i on
RECURSIVE KeysLoop(_, _, _)
KeysLoop(it, rows, i) ==
    IF i > Len(rows) THEN NotReturned
    ELSE IF KeysHit(it, rows[i]) /\ ring_matches(rows[i].ring_size, ItemRing(it))
         THEN Returned(pick_cost_weight(rows[i], it.metal_type))
         ELSE KeysLoop(it, rows, i + 1)

\* model.rs:152-162 the loop over design_key, from row i on
RECURSIVE DesignLoop(_, _, _)
DesignLoop(it, rows, i) ==
    IF i > Len(rows) THEN NotReturned
    ELSE IF DesignHit(it, rows[i]) /\ ring_matches(rows[i].ring_size, ItemRing(it))
         THEN Returned(pick_cost_weight(rows[i], it.metal_type))
         ELSE DesignLoop(it, rows, i + 1)

\* one loop that takes the first row named by a product key or by its
\* design key, from row i on
RECURSIVE SinglePassLoop(_, _, _)
SinglePassLoop(it, rows, i) ==
    IF i > Len(rows) THEN NotReturned
    ELSE IF /\ KeysHit(it, rows[i]) \/ DesignHit(it, rows[i])
            /\ ring_matches(rows[i].ring_size, ItemRing(it))
         THEN Returned(pick_cost_weight(rows[i], it.metal_type))
         ELSE SinglePassLoop(it, rows, i + 1)

\* model.rs:133-165 with the two loops merged into one
lookup_piece_cost_single_pass(it, rows) == SinglePassLoop(it, rows, 1).value

\* model.rs:133-165 lookup_piece_cost
lookup_piece_cost(it, rows) ==
    LET byKeys == KeysLoop(it, rows, 1)
    IN  IF byKeys.returned THEN byKeys.value
        ELSE DesignLoop(it, rows, 1).value

\* model.rs:93-102 OrderItem: the fields the matcher reads
OrderItem(name, metal_type, ring_size) ==
    [name |-> name, metal_type |-> metal_type, ring_size |-> ring_size]

\* model.rs:111-123 PieceCostRow: the fields the matcher reads
PieceCostRow(design_key, ring_size, product_keys, silver, gold, bronze) ==
    [design_key |-> design_key, ring_size |-> ring_size, product_keys |-> product_keys,
     silver_usd |-> silver[1], silver_g |-> silver[2],
     gold_usd |-> gold[1], gold_g |-> gold[2],
     bronze_usd |-> bronze[1], bronze_g |-> bronze[2]]

NoItem == OrderItem(<<>>, "Unknown", None)

\* model.rs:10-15
MetalTypes == {"Gold", "Silver", "Bronze", "Unknown"}

\* the items matched: " Ab" and "b", with and without a ring size
LookupItems ==
    { OrderItem(n, m, r) :
        n \in { <<" ", "A", "b">>, <<"b">> },
        m \in {"Silver", "Gold"},
        r \in { None, Some(<<" ", "7">>) } }

\* the rows of the catalogs matched: design keys "AB", "a" and "zz"; no
\* product keys or ["zz", " B "]; no ring size or "7"; silver data only or
\* silver and gold data
LookupRows ==
    { PieceCostRow(d, r, k, c[1], c[2], <<None, None>>) :
        d \in { <<"A", "B">>, <<"a">>, <<"z", "z">> },
        r \in { None, Some(<<"7">>) },
        k \in { None, Some(<< <<"z", "z">>, <<" ", "B", " ">> >>) },
        c \in { << <<Some(5), Some(2)>>, <<None, None>> >>,
                << <<Some(7), Some(3)>>, <<Some(9), Some(4)>> >> } }

Catalogs == UNION { [1..n -> LookupRows] : n \in 0..MaxRows }

\* the costs and weights a row can hold for one metal
MetalData == { <<c, w>> : c \in {None, Some(0), Some(5), Some(0 - 5)},
                          w \in {None, Some(0), Some(2)} }

\* the rows pick_cost_weight is applied to
PickRows ==
    { PieceCostRow(<<>>, None, None, s, g, b) : s \in MetalData, g \in MetalData, b \in MetalData }

\* the ring sizes of rows and of items ring_matches is applied to
RowRings == { None, Some(<<>>), Some(<<"N", "/", "A">>), Some(<<" ">>), Some(<<"7">>),
              Some(<<" ", "7", " ">>), Some(<<"8">>), Some(<<"n", "/", "a">>),
              Some(<<" ", "N", "/", "A">>) }
ItemRings == { None, Some(<<>>), Some(<<"7">>), Some(<<"7", " ">>), Some(<<"8">>),
               Some(<<"N", "/", "A">>) }

\* the words of product texts, and the text of a list of words
TextWords == { <<"G", "o", "l", "d">>, <<"1", "4", "K">>, <<"1", "8", "k">>, <<"1", "0", "k">>,
               <<"S", "I", "L", "V", "E", "R">>, <<"S", "t", "e", "r", "l", "i", "n", "g">>,
               <<"9", "2", "5">>, <<"b", "r", "o", "n", "z", "e">>, <<"B", "r", "a", "s", "s">>,
               <<"R", "i", "n", "g">> }
RECURSIVE JoinWords(_)
JoinWords(ws) ==
    IF ws = <<>> THEN <<>>
    ELSE IF Len(ws) = 1 THEN ws[1]
    ELSE ws[1] \o <<" ">> \o JoinWords(Tail(ws))
WordLists == UNION { [1..n -> TextWords] : n \in 0..MaxWords }

\* no function of model.rs is applied
CatIdle ==
    /\ fn = "none"
    /\ fnDone = FALSE
    /\ item = NoItem
    /\ piece_costs = <<>>
    /\ row_ring = None
    /\ item_ring = None
    /\ text = <<>>
    /\ words = <<>>
    /\ costResult = None
    /\ ringResult = FALSE
    /\ metalResult = "Unknown"

\* the calls of the functions of model.rs, each with its arguments
CatInit ==
    /\ fnDone = FALSE
    /\ costResult = None
    /\ ringResult = FALSE
    /\ metalResult = "Unknown"
    /\ \/ /\ fn = "lookup_piece_cost"
          /\ item \in LookupItems
          /\ piece_costs \in Catalogs
          /\ row_ring = None /\ item_ring = None /\ text = <<>> /\ words = <<>>
       \/ /\ fn = "pick_cost_weight"
          /\ item \in { OrderItem(<<>>, m, None) : m \in MetalTypes }
          /\ piece_costs \in { <<r>> : r \in PickRows }
          /\ row_ring = None /\ item_ring = None /\ text = <<>> /\ words = <<>>
       \/ /\ fn = "ring_matches"
          /\ row_ring \in RowRings
          /\ item_ring \in ItemRings
          /\ item = NoItem /\ piece_costs = <<>> /\ text = <<>> /\ words = <<>>
       \/ /\ fn = "from_string"
          /\ words \in WordLists
          /\ text = JoinWords(words)
          /\ item = NoItem /\ piece_costs = <<>> /\ row_ring = None /\ item_ring = None

\* model.rs:133-165
LookupPieceCost ==
    /\ fn = "lookup_piece_cost"
    /\ ~fnDone
    /\ fnDone' = TRUE
    /\ costResult' = lookup_piece_cost(item, piece_costs)
    /\ UNCHANGED <<fn, item, piece_costs, row_ring, item_ring, text, words,
                   ringResult, metalResult, tokVars, aggVars, mapVars, logVars>>

\* model.rs:176-205
PickCostWeight ==
    /\ fn = "pick_cost_weight"
    /\ ~fnDone
    /\ fnDone' = TRUE
    /\ costResult' = pick_cost_weight(piece_costs[1], item.metal_type)
    /\ UNCHANGED <<fn, item, piece_costs, row_ring, item_ring, text, words,
                   ringResult, metalResult, tokVars, aggVars, mapVars, logVars>>

\* model.rs:167-174
RingMatches ==
    /\ fn = "ring_matches"
    /\ ~fnDone
    /\ fnDone' = TRUE
    /\ ringResult' = ring_matches(row_ring, item_ring)
    /\ UNCHANGED <<fn, item, piece_costs, row_ring, item_ring, text, words,
                   costResult, metalResult, tokVars, aggVars, mapVars, logVars>>

\* model.rs:19-30
FromString ==
    /\ fn = "from_string"
    /\ ~fnDone
    /\ fnDone' = TRUE
    /\ metalResult' = from_string(text)
    /\ UNCHANGED <<fn, item, piece_costs, row_ring, item_ring, text, words,
                   costResult, ringResult, tokVars, aggVars, mapVars, logVars>>

\* ------------------------------------------------- the order mappings applied
\* the properties of a line item: none, an empty list, a size property, a
\* size property behind another one, no size property, a size property
\* without a value
PropertyLists ==
    { None, Some(<<>>),
      Some(<<ShopifyProperty(<<"R", "i", "n", "g", " ", "S", "i", "z", "e">>, <<"6">>)>>),
      Some(<<ShopifyProperty(<<"E", "n", "g", "r", "a", "v", "i", "n", "g">>, <<"A", "B">>), ShopifyProperty(<<"S", "I", "Z", "E">>, <<"9">>),
             ShopifyProperty(<<"r", "i", "n", "g">>, <<"4">>)>>),
      Some(<<ShopifyProperty(<<"C", "o", "l", "o", "r">>, <<"r", "e", "d">>)>>),
      Some(<<ShopifyProperty(<<"S", "i", "z", "i", "n", "g">>, <<>>)>>) }

\* the names of line items
ItemNames ==
    { <<"1", "4", "k", " ", "G", "o", "l", "d", " ", "R", "i", "n", "g", " ", "S", "i", "z", "e", " ", "7">>, <<"S", "i", "z", "e", " ", "M", " ", "U", "S", " ", "7">>, <<"U", "S", " ", "6", " ", "S", "i", "z", "e", " ", "5", ".", "5">>, <<"S", "i", "l", "v", "e", "r", " ", "B", "a", "n", "d">>,
      <<"B", "a", "n", "d", " ", "s", "z", " ", "7", " ", "1", "/", "2", " ", "w", "i", "d", "e">>, <<"R", "i", "n", "g", " ", "s", "i", "z", "e">> }

\* the line items that are mapped alone
MapLineItems ==
    { ShopifyLineItem(n, q, p, v, pr) :
        n \in ItemNames,
        q \in {0 - 1, 0, 1, 3},
        p \in { <<"1", "0">>, <<"-", "5">>, <<"x">>, <<>> },
        v \in { None, Some(<<"U", "K", " ", "8">>) },
        pr \in PropertyLists }

\* the line items of the raw orders that are mapped
OrderLineItems ==
    { ShopifyLineItem(<<"S", "i", "l", "v", "e", "r", " ", "B", "a", "n", "d">>, 2, <<"1", "0">>, None, None),
      ShopifyLineItem(<<"G", "o", "l", "d", " ", "B", "a", "n", "d">>, 0, <<"5">>, None, None),
      ShopifyLineItem(<<"B", "a", "n", "d">>, 0 - 1, <<"x">>, None, None) }

\* the customers of the raw orders that are mapped
MapCustomers ==
    { None } \cup
    { Some(ShopifyCustomer(f, l)) : f \in { None, Some(<<"A", "n", "n">>), Some(<<" ">>) },
                                    l \in { None, Some(<<"L", "e", "e">>) } }

\* the raw orders that are mapped
MapRawOrders ==
    { RawShopifyOrder(c, cu, li, t, "USD") :
        c \in { None, Some(NowDay - 1) },
        cu \in MapCustomers,
        li \in UNION { [1..n -> OrderLineItems] : n \in 0..MaxItems },
        t \in { <<"2", "0">>, <<"0">>, <<"x">>, <<"-", "5">> } }

\* the totals of the receipts that are mapped
MapGrandtotals ==
    { None,
      Some(EtsyMoney(Some(1500), Some(100), Some("EUR"))),
      Some(EtsyMoney(Some(1500), None, None)),
      Some(EtsyMoney(None, Some(100), Some("USD"))),
      Some(EtsyMoney(Some(0), Some(100), Some("USD"))),
      Some(EtsyMoney(Some(0 - 1500), Some(100), Some("USD"))),
      Some(EtsyMoney(Some(1500), Some(0), Some("USD"))),
      Some(EtsyMoney(Some(0 - 1500), Some(0 - 100), Some("USD"))) }

\* the transactions of the receipts that are mapped; the third one ships
\* before the fourth, and its expected_ship_date is in milliseconds
MapTransactions ==
    { EtsyTransaction(Some(<<"G", "o", "l", "d", " ", "R", "i", "n", "g">>), Some(2), Some(EtsyMoney(Some(1000), Some(100), None)),
                      Some(<<EtsyVariation(Some(<<"R", "i", "n", "g", " ", "s", "i", "z", "e">>), Some(<<"7">>))>>),
                      Some(7), Some(1), Some(NowDay + 3)),
      EtsyTransaction(None, None, None, None, Some(3), Some(2), None),
      EtsyTransaction(Some(<<"9", "2", "5", " ", "B", "a", "n", "d">>), Some(0), Some(EtsyMoney(Some(500), None, None)),
                      Some(<<EtsyVariation(None, None),
                             EtsyVariation(Some(<<"C", "o", "l", "o", "r">>), Some(<<"r", "e", "d">>))>>),
                      Some(7), None, Some((NowDay + 5) * 1000)),
      EtsyTransaction(Some(<<"B", "a", "n", "d">>), Some(0 - 1), Some(EtsyMoney(Some(0 - 500), Some(100), None)),
                      None, Some(7), Some(1), Some(NowDay + 9)) }

\* the receipts that are mapped
MapReceipts ==
    { EtsyReceipt(NowDay - 10, n, NowDay - 10, g, ts) :
        n \in { <<"A", "n", "n">>, <<" ">> },
        g \in MapGrandtotals,
        ts \in { None } \cup
               { Some(q) : q \in UNION { [1..k -> MapTransactions] : k \in 0..MaxItems } } }

\* the image URLs found before the mapping
MapImageUrls ==
    { {}, { << <<7, 1>>, "L" >> }, { << <<7, 1>>, "L" >>, << <<3, 2>>, "S" >> } }

NoLineItem == ShopifyLineItem(<<>>, 0, <<>>, None, None)
NoRawOrder == RawShopifyOrder(None, None, <<>>, <<>>, "")
NoReceipt == EtsyReceipt(0, <<>>, 0, None, None)

\* no order is mapped
MapIdle ==
    /\ mapLineItem = NoLineItem
    /\ mapRawOrder = NoRawOrder
    /\ mapReceipt = NoReceipt
    /\ mapUrls = {}
    /\ mapItem = None
    /\ mapOrder = <<>>

\* the mappings, each with its arguments
MapInit ==
    /\ fnDone = FALSE
    /\ mapItem = None
    /\ mapOrder = <<>>
    /\ \/ /\ fn = "shopify_item"
          /\ mapLineItem \in MapLineItems
          /\ mapRawOrder = NoRawOrder /\ mapReceipt = NoReceipt /\ mapUrls = {}
       \/ /\ fn = "shopify_order"
          /\ mapRawOrder \in MapRawOrders
          /\ mapLineItem = NoLineItem /\ mapReceipt = NoReceipt /\ mapUrls = {}
       \/ /\ fn = "etsy_order"
          /\ mapReceipt \in MapReceipts
          /\ mapUrls \in MapImageUrls
          /\ mapLineItem = NoLineItem /\ mapRawOrder = NoRawOrder

\* shopify.rs:158-174
MapShopifyItem ==
    /\ fn = "shopify_item"
    /\ ~fnDone
    /\ fnDone' = TRUE
    /\ mapItem' = Some(ShopifyItem(mapLineItem))
    /\ UNCHANGED <<fn, mapLineItem, mapRawOrder, mapReceipt, mapUrls, mapOrder>>
    /\ UNCHANGED <<item, piece_costs, row_ring, item_ring, text, words, costResult,
                   ringResult, metalResult, tokVars, aggVars, logVars>>

\* shopify.rs:134-203
MapShopifyOrder ==
    /\ fn = "shopify_order"
    /\ ~fnDone
    /\ fnDone' = TRUE
    /\ mapOrder' = fetch_shopify_orders([kind |-> "ok", body |-> <<mapRawOrder>>]).orders
    /\ UNCHANGED <<fn, mapLineItem, mapRawOrder, mapReceipt, mapUrls, mapItem>>
    /\ UNCHANGED <<item, piece_costs, row_ring, item_ring, text, words, costResult,
                   ringResult, metalResult, tokVars, aggVars, logVars>>

\* etsy.rs:322-452
MapEtsyOrder ==
    /\ fn = "etsy_order"
    /\ ~fnDone
    /\ fnDone' = TRUE
    /\ mapOrder' = EtsyOrders(<<mapReceipt>>, mapUrls)
    /\ UNCHANGED <<fn, mapLineItem, mapRawOrder, mapReceipt, mapUrls, mapItem>>
    /\ UNCHANGED <<item, piece_costs, row_ring, item_ring, text, words, costResult,
                   ringResult, metalResult, tokVars, aggVars, logVars>>

\* ------------------------------------------------------------ the log buffer
LogThreads == 1..MaxThreads

\* no thread logs
LogIdle ==
    /\ pending = [t \in LogThreads |-> None]
    /\ built = 0
    /\ appended = <<>>
    /\ snapshot = None

\* the buffer after MAX_LOGS - 1 calls of app_log
FilledBuffer == [i \in 1..(MAX_LOGS - 1) |-> LogEntry("INFO", "earlier entry {}", i)]

\* log.rs:22-27 a thread builds its entry
LogBuild(t) ==
    /\ pending[t] = None
    /\ built < MaxAppends
    /\ built' = built + 1
    /\ \E level \in {"INFO", "ERROR"} :
        pending' = [pending EXCEPT ![t] = Some(LogEntry(level, "entry {}", built + 1))]
    /\ UNCHANGED <<appended, snapshot, aggVars, tokVars, catVars, mapVars>>

\* log.rs:28-33 the thread holds the lock: push and drain
LogPush(t) ==
    /\ pending[t] # None
    /\ logs' = app_log(logs, pending[t][1])
    /\ appended' = Append(appended, pending[t][1])
    /\ pending' = [pending EXCEPT ![t] = None]
    /\ UNCHANGED <<built, snapshot, tokVars, catVars, mapVars>>
    /\ UNCHANGED <<aggPc, shopPc, etsyPc, all_orders, errors, aggResult, shopResult,
                   etsyResult, offset, all_receipts, receiptReqs, shopReqs, lastPage,
                   image_keys, imageReqs, image_urls, shopify_response, raw_body, image_response>>

\* log.rs:36-39 app_logs_snapshot
LogSnapshot ==
    /\ snapshot # Some(logs)
    /\ snapshot' = Some(logs)
    /\ UNCHANGED <<pending, built, appended, aggVars, tokVars, catVars, mapVars>>

\* ------------------------------------------------------------ specifications
\* the configs a file can hold when the program starts at time t0
InitFiles(t0) ==
    {MissingFile, GarbageFile}
    \cup { JsonFile(Cfg(r, a, e)) :
             r \in {None, Some(<<"r">>)},
             a \in {None, Some(<<"c">>)},
             e \in {None, Some(t0 + EXPIRY_MARGIN), Some(t0 + 3 * EXPIRY_MARGIN)} }

TokInitAt(t0) ==
    /\ now = t0
    /\ secret \in { <<>>, <<"s">> }
    /\ getPc = "idle"
    /\ getCfg = DefaultCfg
    /\ getRefresh = <<>>
    /\ getResult = NoResult
    /\ ops = 0
    /\ getNet = 0
    /\ getStartFile = file
    /\ getStartNow = t0
    /\ getResp = NoResp
    /\ getRespNow = t0
    /\ getSaveOk = FALSE
    /\ getDirty = FALSE
    /\ getPrev = NoOp
    /\ lastDone = NoOp
    /\ lastSave = NoSave

\* no fetch runs
FetchIdle ==
    /\ aggPc = "idle"
    /\ shopPc = "notStarted"
    /\ etsyPc = "notStarted"
    /\ all_orders = <<>>
    /\ errors = <<>>
    /\ aggResult = [ok |-> FALSE, orders |-> <<>>, errors |-> <<>>]
    /\ shopResult = NoOrders
    /\ etsyResult = NoOrders
    /\ offset = 0
    /\ all_receipts = <<>>
    /\ receiptReqs = <<>>
    /\ shopReqs = 0
    /\ lastPage = [seen |-> FALSE, n |-> 0, count |-> None]
    /\ image_keys = <<>>
    /\ imageReqs = <<>>
    /\ image_urls = {}
    /\ shopify_response = <<>>
    /\ raw_body = None
    /\ image_response = None

AggInit ==
    /\ FetchIdle
    /\ logs = <<>>

\* the credential store under calls from any caller, a user who saves
\* tokens at any time, and a running clock
TokInit ==
    /\ file \in InitFiles(0)
    /\ TokInitAt(0)
    /\ AggInit
    /\ CatIdle
    /\ MapIdle
    /\ LogIdle

GetStart == GetStartBody /\ UNCHANGED <<aggVars, catVars, mapVars, logVars>>
RefreshResponse == RefreshResponseBody(Responses(getRefresh)) /\ UNCHANGED <<aggVars, catVars, mapVars, logVars>>
Save == SaveBody /\ UNCHANGED <<aggVars, catVars, mapVars, logVars>>
Tick == TickBody /\ UNCHANGED <<aggVars, catVars, mapVars, logVars>>

TokNext == GetStart \/ RefreshResponse \/ Save \/ Tick

SpecTok == TokInit /\ [][TokNext]_vars

\* the configs a fetch cycle starts from: never connected, and a cached
\* token too close to its expiry with a refresh token
FetchInitFiles(t0) ==
    { MissingFile,
      JsonFile(Cfg(Some(<<"r">>), Some(<<"c">>), Some(t0 + EXPIRY_MARGIN))) }

\* one fetch cycle of fetch_all_orders.  ETSY_SECRET is read only when the
\* config holds neither a usable token nor a refresh token: it is empty
\* with the missing file
Init ==
    /\ file \in FetchInitFiles(NowDay * 86400)
    /\ TokInitAt(NowDay * 86400)
    /\ secret = (IF file = MissingFile THEN <<>> ELSE <<"s">>)
    /\ AggInit
    /\ CatIdle
    /\ MapIdle
    /\ LogIdle

Next ==
    \/ AggStart
    \/ ShopifyResponse
    \/ EtsyStart
    \/ EtsyRefreshResponse
    \/ EtsyTokenDone
    \/ EtsyPageResponse
    \/ EtsyImageResponse
    \/ EtsyImageStore
    \/ AggFinish

Spec == Init /\ [][Next]_vars

\* the functions of model.rs, each applied once to arguments drawn from the
\* sets above; no fetch runs and no credential is stored
CatSpecInit ==
    /\ file = MissingFile
    /\ TokInitAt(0)
    /\ secret = <<>>
    /\ AggInit
    /\ CatInit
    /\ MapIdle
    /\ LogIdle

CatNext == LookupPieceCost \/ PickCostWeight \/ RingMatches \/ FromString

SpecCat == CatSpecInit /\ [][CatNext]_vars

\* the mappings from raw orders to orders, each applied once to arguments
\* drawn from the sets above; no fetch runs and no credential is stored
MapSpecInit ==
    /\ file = MissingFile
    /\ TokInitAt(NowDay * 86400)
    /\ secret = <<>>
    /\ AggInit
    /\ item = NoItem /\ piece_costs = <<>> /\ row_ring = None /\ item_ring = None
    /\ text = <<>> /\ words = <<>>
    /\ costResult = None /\ ringResult = FALSE /\ metalResult = "Unknown"
    /\ MapInit
    /\ LogIdle

MapNext == MapShopifyItem \/ MapShopifyOrder \/ MapEtsyOrder

SpecMap == MapSpecInit /\ [][MapNext]_vars

\* the log buffer under calls of app_log from several threads and calls of
\* app_logs_snapshot, starting empty or one entry short of MAX_LOGS
LogSpecInit ==
    /\ file = MissingFile
    /\ TokInitAt(0)
    /\ secret = <<>>
    /\ FetchIdle
    /\ CatIdle
    /\ MapIdle
    /\ logs \in { <<>>, FilledBuffer }
    /\ pending = [t \in LogThreads |-> None]
    /\ built = 0
    /\ appended = logs
    /\ snapshot = None

LogNext == (\E t \in LogThreads : LogBuild(t) \/ LogPush(t)) \/ LogSnapshot

SpecLog == LogSpecInit /\ [][LogNext]_vars

\* ===================================================================== claims
\* the orders the two fetches handed to the aggregator, Shopify's first
FetchedOrders ==
    (IF shopResult.ok THEN shopResult.orders ELSE <<>>)
    \o (IF etsyResult.ok THEN etsyResult.orders ELSE <<>>)

ContainsAll(out, os) == \A i \in 1..Len(os) : \E j \in 1..Len(out) : out[j] = os[i]

C2_LaunchedBeforeAwaited ==
    (aggPc = "running" /\ shopPc = "wait" /\ etsyPc = "notStarted") => ENABLED EtsyStart

\* C2 as amended: the fetches run one after the other.  As long as the Shopify
\* fetch has not completed, fetch_etsy_orders has not been called and has sent
\* no request (a slow Shopify fetch does delay the Etsy fetch); once the
\* Shopify fetch has completed, with orders or with an error, the Etsy fetch
\* can start.
C2_Sequential ==
    /\ (shopPc # "done" => etsyPc = "notStarted" /\ getPc = "idle" /\ receiptReqs = <<>>)
    /\ (aggPc = "running" /\ shopPc = "done" /\ etsyPc = "notStarted" => ENABLED EtsyStart)

\* C2 witness: the Shopify fetch failed and the Etsy fetch is awaiting a page
C2_Witness ==
    /\ shopPc = "done"
    /\ ~shopResult.ok
    /\ etsyPc = "page"
    /\ receiptReqs = <<0>>

\* the place of order o in the sequence os (orders differ in source or id)
PlaceIn(os, o) == CHOOSE k \in 1..Len(os) : os[k] = o

\* C3: the orders fetch_all_orders returns are the fetched orders sorted
\* ascending by due_date, and orders with equal due_date keep their input
\* order (Shopify's before Etsy's, each source's in the order it returned
\* them); the result is determined by the two fetched lists alone.
C3_SortedStable ==
    aggPc = "done" =>
        LET out == aggResult.orders
            inp == FetchedOrders
        IN  /\ Len(out) = Len(inp)
            /\ ContainsAll(out, inp)
            /\ \A i, j \in 1..Len(out) :
                 i < j =>
                    /\ out[i].due_date <= out[j].due_date
                    /\ out[i].due_date = out[j].due_date
                         => PlaceIn(inp, out[i]) < PlaceIn(inp, out[j])

\* C3 witness: the sort moved an Etsy order in front of a Shopify order, and
\* there are ties inside Shopify's orders and between the two sources
C3_Witness ==
    /\ aggPc = "done"
    /\ \E i, j \in 1..Len(aggResult.orders) :
         /\ i < j
         /\ aggResult.orders[i].source = "Etsy"
         /\ aggResult.orders[j].source = "Shopify"
         /\ aggResult.orders[i].due_date < aggResult.orders[j].due_date
    /\ \E i, j \in 1..Len(aggResult.orders) :
         /\ i < j
         /\ aggResult.orders[i].source = "Shopify"
         /\ aggResult.orders[j].source = "Shopify"
         /\ aggResult.orders[i].due_date = aggResult.orders[j].due_date
    /\ \E i, j \in 1..Len(aggResult.orders) :
         /\ i < j
         /\ aggResult.orders[i].source = "Shopify"
         /\ aggResult.orders[j].source = "Etsy"
         /\ aggResult.orders[i].due_date = aggResult.orders[j].due_date

\* the config the current call of get_etsy_access_token loaded
StartCfg == IF getStartFile.state = "json" THEN getStartFile.cfg ELSE DefaultCfg

\* a call of get_etsy_access_token has begun
Called == getPc # "idle"

\* save_etsy_refresh_token wrote while the current call awaited its refresh
SavedInFlight == getPc = "done" /\ getDirty /\ lastDone.op = "get" /\ getNet = 1

\* t is s without its leading and trailing whitespace
IsTrimOf(t, s) ==
    \E i \in 1..(Len(s) + 1) : \E j \in 0..Len(s) :
        /\ t = SubSeq(s, i, j)
        /\ \A k \in 1..(i - 1) : s[k] \in {" ", "\t", "\n"}
        /\ \A k \in (j + 1)..Len(s) : s[k] \in {" ", "\t", "\n"}
        /\ t # <<>> => t[1] \notin {" ", "\t", "\n"} /\ t[Len(t)] \notin {" ", "\t", "\n"}

\* C4 as claimed: when save_etsy_refresh_token(T) ran while a
\* get_etsy_access_token call awaited its refresh response, and both have
\* completed with their writes done, the stored refresh token is T or the
\* token the provider rotated from T, never the one the call had loaded.
C4_NoLostUpdate ==
    (SavedInFlight /\ lastSave.ok /\ (getResp.kind = "ok" => getSaveOk)) =>
        /\ file.state = "json"
        /\ \E t \in {Trim(lastSave.token)} :
             file.cfg.refresh_token \in {Some(t), Some(Rotated(t))}

\* C5: get_etsy_access_token returns the stored access token without a
\* network call exactly when the stored config has an access token and
\* expires_at > now + 300; a token with 300 s or less left, or with no stored
\* expiry, is never returned as it is.
C5_CachedIffFresh ==
    Called =>
        ( (/\ getPc = "done"
           /\ getNet = 0
           /\ getResult.ok
           /\ StartCfg.access_token = Some(getResult.tok))
          <=>
          (/\ StartCfg.access_token # None
           /\ StartCfg.expires_at_utc_secs # None
           /\ StartCfg.expires_at_utc_secs[1] > getStartNow + 300) )

\* C5 witness: a stored token with exactly 300 s left was not returned; the
\* call sent a refresh request instead
C5_Witness ==
    /\ Called
    /\ StartCfg.access_token # None
    /\ StartCfg.expires_at_utc_secs = Some(getStartNow + 300)
    /\ getStartNow > 0
    /\ getNet = 1

\* C6: when the refresh fails (transport error, non-2xx status, unparsable
\* body) get_etsy_access_token returns an error, and the persisted config is
\* what it was before the call (no other writer having written meanwhile).
C6_FailedRefreshKeepsConfig ==
    (getPc = "done" /\ getResp.kind \in {"transport", "status", "parse"}) =>
        /\ ~getResult.ok
        /\ getResult.err \in {"Refresh request failed", "Etsy token refresh failed",
                              "Parse token response"}
        /\ (~getDirty => file = getStartFile)

\* C6 witness: a refresh answered with a non-2xx status, on a config that
\* held an expired access token
C6_Witness ==
    /\ getPc = "done"
    /\ getResp.kind = "status"
    /\ ~getDirty
    /\ getStartFile.state = "json"
    /\ getStartFile.cfg.access_token # None
    /\ ~getResult.ok

\* what the config must hold after the current call's successful refresh
ExpectedRefreshed ==
    Cfg(IF getResp.refresh_token # None THEN getResp.refresh_token
                                        ELSE StartCfg.refresh_token,
        Some(getResp.access_token),
        Some(getRespNow + (IF getResp.expires_in = None THEN 3600
                                                        ELSE getResp.expires_in[1])))

PageErrors == {"Etsy request failed", "Etsy API error",
               "Etsy response read failed", "Etsy response parse failed"}

\* fetch_etsy_orders returned the error of a receipts page
PageFailed == etsyPc = "done" /\ ~etsyResult.ok /\ etsyResult.err \in PageErrors

\* fetch_etsy_orders panicked on a receipts page
PagePanicked == etsyPc = "panicked"

\* elements of a sequence are pairwise different
Distinct(q) == \A i, j \in 1..Len(q) : q[i] = q[j] => i = j

\* C11: the receipts requests carry the offsets 0, LIMIT, 2*LIMIT, ... in
\* this order, each sent only after every earlier page was received in full;
\* a page shorter than the page size is the last one requested, a full page
\* is always followed by the request for the next offset, and neither
\* depends on the count field of the page.
C11_PaginationStopsAtShortPage ==
    /\ \A k \in 1..Len(receiptReqs) : receiptReqs[k] = (k - 1) * LIMIT
    /\ (etsyPc = "page" =>
          /\ Len(receiptReqs) = Len(all_receipts) \div LIMIT + 1
          /\ Len(all_receipts) = offset
          /\ receiptReqs[Len(receiptReqs)] = offset)
    /\ (lastPage.seen /\ lastPage.n < LIMIT =>
          /\ etsyPc \in {"images", "done"}
          /\ ~ENABLED EtsyPageResponse
          /\ Len(receiptReqs) = Len(all_receipts) \div LIMIT + 1
          /\ Len(all_receipts) = offset + lastPage.n)
    /\ (lastPage.seen /\ ~(lastPage.n < LIMIT) =>
          /\ etsyPc = "page" \/ PageFailed \/ PagePanicked
          /\ Len(receiptReqs) = Len(all_receipts) \div LIMIT + 1
          /\ receiptReqs[Len(receiptReqs)] = Len(all_receipts))

\* C11 witness: three pages were requested; the last one was short and its
\* count field named more receipts than were collected
C11_Witness ==
    /\ etsyPc = "done"
    /\ etsyResult.ok
    /\ Len(receiptReqs) > 2
    /\ lastPage.n < LIMIT
    /\ lastPage.count # None
    /\ lastPage.count[1] > Len(all_receipts)

C13_ErrorNamesOffset ==
    (PageFailed /\ etsyResult.err \in {"Etsy request failed", "Etsy API error"}) =>
        etsyResult.detail.url_offset = Some(offset)

\* C14: when the write of the config file fails after a successful refresh,
\* get_etsy_access_token returns the new access token and the failure is
\* reported: the log holds an entry that is not one of the INFO progress lines.
C14_PersistFailureReported ==
    (etsyPc = "token" /\ getPc = "done" /\ getResp.kind = "ok" /\ ~getSaveOk) =>
        /\ getResult = Ok(getResp.access_token)
        /\ \E i \in 1..Len(logs) : logs[i].level # "INFO"

\* C15: in one call of fetch_all_orders the Shopify orders request is sent at
\* most once, the token refresh request at most once, no receipts offset is
\* requested twice and no (listing id, image id) is looked up twice, also
\* after a request has failed.
C15_NoRetry ==
    /\ shopReqs <= 1
    /\ getNet <= 1
    /\ Distinct(receiptReqs)
    /\ Distinct(imageReqs)
    /\ (shopPc = "done" => shopReqs = 1)
    /\ (etsyPc = "done" /\ etsyResult.ok =>
          { imageReqs[i] : i \in 1..Len(imageReqs) }
            = { PushedImageKeys(all_receipts)[i] : i \in 1..Len(PushedImageKeys(all_receipts)) })

\* C15 witness: Shopify failed, the token was refreshed, two pages were
\* requested, and two images were looked up for receipts that name one of
\* them more than once; one image lookup failed
C15_Witness ==
    /\ aggPc = "done"
    /\ ~shopResult.ok
    /\ getNet = 1
    /\ etsyResult.ok
    /\ Len(receiptReqs) > 1
    /\ Len(imageReqs) = 2
    /\ Len(PushedImageKeys(all_receipts)) > 2
    /\ Cardinality(image_urls) = 1

\* C20: the orders fetch_etsy_orders returns are exactly the receipts placed
\* not more than 60 days before now, in the order received, each dated with
\* the day it was placed, whether create_timestamp is in seconds or (above
\* 10^12) in milliseconds.
C20_LookbackWindow ==
    (etsyPc = "done" /\ etsyResult.ok) =>
        LET os == etsyResult.orders
        IN  /\ \A i \in 1..Len(all_receipts) :
                  (\E j \in 1..Len(os) : os[j].id = i) <=> (Today - all_receipts[i].day <= 60)
            /\ \A j \in 1..Len(os) : os[j].order_date = all_receipts[os[j].id].day
            /\ \A j, k \in 1..Len(os) : j < k => os[j].id < os[k].id

\* C20 witness: the receipts held one 10 days old in seconds, one in
\* milliseconds and one 70 days old, and two orders were returned
C20_Witness ==
    /\ etsyPc = "done"
    /\ etsyResult.ok
    /\ Len(all_receipts) = 3
    /\ \E i \in 1..3 : Today - all_receipts[i].day = 10
    /\ \E i \in 1..3 : Today - all_receipts[i].day = 70
    /\ \E i \in 1..3 : all_receipts[i].create_timestamp > MILLIS_ABOVE
    /\ Len(etsyResult.orders) = 2

\* ------------------------------------------- claims on the catalog matcher
\* lookup_piece_cost, pick_cost_weight, ring_matches, from_string has returned
Applied(f) == fn = f /\ fnDone

\* the rows whose ring-size constraint the item satisfies and that a product
\* key (an alias) names, and those that the design key names
AliasRows ==
    { i \in 1..Len(piece_costs) :
        KeysHit(item, piece_costs[i]) /\ ring_matches(piece_costs[i].ring_size, ItemRing(item)) }
DesignRows ==
    { i \in 1..Len(piece_costs) :
        DesignHit(item, piece_costs[i]) /\ ring_matches(piece_costs[i].ring_size, ItemRing(item)) }

\* the least element of a non-empty set of row numbers
First(rows) == CHOOSE i \in rows : \A j \in rows : i <= j

\* the row the two tiers choose, 0 when there is none
ChosenRow ==
    IF AliasRows # {} THEN First(AliasRows)
    ELSE IF DesignRows # {} THEN First(DesignRows)
    ELSE 0

\* the cost and the weight a row holds for a metal, absent fields as zero
FieldOr0(o) == IF o = <<>> THEN 0 ELSE o[1]
RowCost(row, metal) ==
    (IF metal \in {"Silver", "Unknown"} THEN FieldOr0(row.silver_usd) ELSE 0)
    + (IF metal \in {"Gold", "Unknown"} THEN FieldOr0(row.gold_usd) ELSE 0)
    + (IF metal \in {"Bronze", "Unknown"} THEN FieldOr0(row.bronze_usd) ELSE 0)
RowWeight(row, metal) ==
    (IF metal \in {"Silver", "Unknown"} THEN FieldOr0(row.silver_g) ELSE 0)
    + (IF metal \in {"Gold", "Unknown"} THEN FieldOr0(row.gold_g) ELSE 0)
    + (IF metal \in {"Bronze", "Unknown"} THEN FieldOr0(row.bronze_g) ELSE 0)

\* C16: lookup_piece_cost answers from one row only: the first row an alias
\* names and whose ring-size constraint holds, else the first row the design
\* key names and whose ring-size constraint holds, else it returns None; the
\* result is what that row holds for the item's metal, None included.
C16_FirstRowOfFirstTier ==
    Applied("lookup_piece_cost") =>
        costResult = IF ChosenRow = 0 THEN None
                     ELSE pick_cost_weight(piece_costs[ChosenRow], item.metal_type)

\* C16 witness: the second row is named by an alias and has no data for the
\* item's metal; the first row is named by its design key only and has data;
\* the result is None
C16_Witness ==
    /\ Applied("lookup_piece_cost")
    /\ Len(piece_costs) = 2
    /\ AliasRows = {2}
    /\ 1 \in DesignRows
    /\ pick_cost_weight(piece_costs[1], item.metal_type) # None
    /\ costResult = None

\* C17 as claimed: the result is None when cost and weight of the row for the
\* metal are both zero, and the pair in every other case.
C17_NoneIffBothZero ==
    Applied("pick_cost_weight") =>
        LET c == RowCost(piece_costs[1], item.metal_type)
            w == RowWeight(piece_costs[1], item.metal_type)
        IN  costResult = IF c = 0 /\ w = 0 THEN None ELSE Some([cost_usd |-> c, weight_g |-> w])

\* C17 as amended: no result holds a zero cost with a zero weight; the result
\* is the pair when the cost or the weight of the row for the metal (for
\* Unknown: the sums over the three metals) is greater than zero, and None in
\* every other case, a negative cost with no weight included.
C17_NoneUnlessPositive ==
    /\ (fnDone /\ fn \in {"pick_cost_weight", "lookup_piece_cost"} =>
          costResult # Some([cost_usd |-> 0, weight_g |-> 0]))
    /\ (Applied("pick_cost_weight") =>
          LET c == RowCost(piece_costs[1], item.metal_type)
              w == RowWeight(piece_costs[1], item.metal_type)
          IN  costResult = IF c > 0 \/ w > 0 THEN Some([cost_usd |-> c, weight_g |-> w])
                           ELSE None)

\* C17 witness: for Unknown metal a row whose costs cancel out and whose
\* weights are absent or zero gave None
C17_Witness ==
    /\ Applied("pick_cost_weight")
    /\ item.metal_type = "Unknown"
    /\ piece_costs[1].silver_usd = Some(5)
    /\ piece_costs[1].gold_usd = Some(0 - 5)
    /\ RowCost(piece_costs[1], "Unknown") = 0
    /\ RowWeight(piece_costs[1], "Unknown") = 0
    /\ costResult = None

\* C18: ring_matches is true exactly when the row has no ring size, the
\* empty one or "N/A", or the item has a ring size that is, without leading
\* and trailing whitespace, the row's size without them.
C18_RingConstraint ==
    Applied("ring_matches") =>
        (ringResult <=>
            \/ row_ring = None
            \/ row_ring = Some(<<>>)
            \/ row_ring = Some(<<"N", "/", "A">>)
            \/ /\ item_ring # None
               /\ \E i \in 1..(Len(item_ring[1]) + 1) : \E j \in 0..Len(item_ring[1]) :
                     LET t == SubSeq(item_ring[1], i, j)
                     IN  IsTrimOf(t, item_ring[1]) /\ IsTrimOf(t, row_ring[1]))

\* C18 witness: row size " 7 " and item size "7 " match
C18_Witness ==
    /\ Applied("ring_matches")
    /\ row_ring = Some(<<" ", "7", " ">>)
    /\ item_ring = Some(<<"7", " ">>)
    /\ ringResult

\* the class of a word of a product text
GoldWords == { <<"G", "o", "l", "d">>, <<"1", "4", "K">>, <<"1", "8", "k">>, <<"1", "0", "k">> }
SilverWords == { <<"S", "I", "L", "V", "E", "R">>, <<"S", "t", "e", "r", "l", "i", "n", "g">>,
                 <<"9", "2", "5">> }
BronzeWords == { <<"b", "r", "o", "n", "z", "e">>, <<"B", "r", "a", "s", "s">> }
HasWord(ws) == \E i \in 1..Len(words) : words[i] \in ws

\* C19: from_string gives Gold for a text with a Gold keyword, else Silver for
\* one with a Silver keyword, else Bronze for one with a Bronze keyword, else
\* Unknown, in whatever case and order the keywords are written.
C19_MetalPriority ==
    Applied("from_string") =>
        metalResult = IF HasWord(GoldWords) THEN "Gold"
                      ELSE IF HasWord(SilverWords) THEN "Silver"
                      ELSE IF HasWord(BronzeWords) THEN "Bronze"
                      ELSE "Unknown"

\* C19 witness: "SILVER 14K" is Gold
C19_Witness ==
    /\ Applied("from_string")
    /\ words = << <<"S", "I", "L", "V", "E", "R">>, <<"1", "4", "K">> >>
    /\ metalResult = "Gold"

\* ---------------------------------------------- claims on the order mappings
\* the text the ring size and the metal of the line item are read from: its
\* name, a blank and its variant title
ItemText ==
    mapLineItem.name \o <<" ">>
    \o (IF mapLineItem.variant_title = None THEN <<>> ELSE mapLineItem.variant_title[1])

\* s reads pat from place i + 1 on, in whatever case
ReadsAt(s, i, pat) ==
    /\ i + Len(pat) <= Len(s)
    /\ \A j \in 1..Len(pat) :
          \/ s[i + j] = pat[j]
          \/ \E k \in 1..Len(UpperChars) : s[i + j] = UpperChars[k] /\ pat[j] = LowerChars[k]

Reads(s, pat) == \E i \in 0..Len(s) : ReadsAt(s, i, pat)

\* the custom properties of the line item, and the places of those whose
\* name reads "size" or "ring"
ItemProperties == IF mapLineItem.properties = None THEN <<>> ELSE mapLineItem.properties[1]
SizeNamed ==
    { i \in 1..Len(ItemProperties) :
        Reads(ItemProperties[i].name, <<"s", "i", "z", "e">>) \/ Reads(ItemProperties[i].name, <<"r", "i", "n", "g">>) }

\* the characters a size is written with
SizeChar(c) == c \in {"0", "1", "2", "3", "4", "5", "6", "7", "8", "9", ".", "/", " "}

\* the token that follows the first place ItemText reads the k-th pattern
\* at: the longest run of size characters there, without the blanks around
\* it; the empty string when the pattern is not read or nothing follows it
TokenAfter(k) ==
    LET pat == RingPatterns[k]
        places == { i \in 0..Len(ItemText) : ReadsAt(ItemText, i, pat) }
    IN  IF places = {} THEN <<>>
        ELSE LET start == First(places) + Len(pat)
                 e0 == CHOOSE e \in start..Len(ItemText) :
                         /\ \A j \in (start + 1)..e : SizeChar(ItemText[j])
                         /\ e = Len(ItemText) \/ ~SizeChar(ItemText[e + 1])
                 run == SubSeq(ItemText, start + 1, e0)
             IN  CHOOSE t \in { SubSeq(run, a, b) : a \in 1..(Len(run) + 1), b \in 0..Len(run) } :
                     IsTrimOf(t, run)

\* the patterns that a token follows
TokenPatterns == { k \in 1..Len(RingPatterns) : TokenAfter(k) # <<>> }

RECURSIVE CharLen(_)
CharLen(runs) == IF runs = <<>> THEN 0 ELSE Head(runs).n + CharLen(Tail(runs))

RECURSIVE CharAt(_, _)
CharAt(runs, i) ==
    IF i <= Head(runs).n THEN Head(runs).ch ELSE CharAt(Tail(runs), i - Head(runs).n)

\* p is the text of the first characters of s
FirstCharsOf(p, s) ==
    /\ CharLen(p) <= CharLen(s)
    /\ \A i \in 1..CharLen(p) : CharAt(p, i) = CharAt(s, i)

\* C22 as claimed: when the body of a receipts page is not decoded, the fetch
\* fails with the parse error, and the error and the logged diagnostic carry
\* a preview that is made of the first characters of the body, at most 1500
\* of them, and that is cut (and marked as cut) when the body is longer.
C22_BoundedPreview ==
    raw_body # None =>
        /\ etsyPc = "done"
        /\ ~etsyResult.ok
        /\ etsyResult.err = "Etsy response parse failed"
        /\ etsyResult.detail.preview # None
        /\ LET p == etsyResult.detail.preview[1]
           IN  /\ CharLen(p.text) <= 1500
               /\ FirstCharsOf(p.text, raw_body[1])
               /\ p.truncated = (CharLen(raw_body[1]) > 1500)
               /\ (~p.truncated => CharLen(p.text) = CharLen(raw_body[1]))
               /\ \E i \in 1..Len(logs) :
                     /\ logs[i].level = "ERROR"
                     /\ logs[i].message = "Etsy parse (offset={}): {}"
                     /\ logs[i].text = Some(p)

\* --------------------------------------------- claims on the mapped orders
\* the transactions of the receipt that is mapped
MapTs == IF mapReceipt.transactions = None THEN <<>> ELSE mapReceipt.transactions[1]

\* the expected_ship_date values its transactions carry
MapShips ==
    { MapTs[k].expected_ship_date[1] :
        k \in { j \in 1..Len(MapTs) : MapTs[j].expected_ship_date # None } }

\* C23: the due date of an Etsy order is the instant of the largest
\* expected_ship_date of its transactions when one of them carries the field,
\* and its order date plus 14 days when none does.
C23_DueDate ==
    Applied("etsy_order") =>
        /\ Len(mapOrder) = 1
        /\ mapOrder[1].due_date =
              IF MapShips = {} THEN mapOrder[1].order_date + 14
              ELSE EtsyInstant(CHOOSE m \in MapShips : \A x \in MapShips : x <= m)

\* C23 witness: the first transaction ships in 3 days and the second one in
\* 9 days; the order is due in 9 days
C23_Witness ==
    /\ Applied("etsy_order")
    /\ Len(MapTs) = 2
    /\ MapTs[1].expected_ship_date = Some(NowDay + 3)
    /\ MapTs[2].expected_ship_date = Some(NowDay + 9)
    /\ Len(mapOrder) = 1
    /\ mapOrder[1].due_date = NowDay + 9

\* the grand total of the receipt that is mapped: its amount, its divisor
MapAmount == IF mapReceipt.grandtotal = None THEN 0 ELSE UnwrapOr(mapReceipt.grandtotal[1].amount, 0)
MapDivisor == IF mapReceipt.grandtotal = None THEN 100 ELSE UnwrapOr(mapReceipt.grandtotal[1].divisor, 100)

\* the sum over the items of an order of price x quantity
RECURSIVE SumOfItems(_, _)
SumOfItems(items, k) ==
    IF k = 0 THEN Wide(0, 0)
    ELSE WideAdd(SumOfItems(items, k - 1), WideMul(items[k].price, items[k].quantity))

\* the currency code of the receipt that is mapped, "USD" when it has none
MapCurrency ==
    IF mapReceipt.grandtotal = None THEN "USD"
    ELSE IF mapReceipt.grandtotal[1].currency_code = None THEN "USD"
    ELSE mapReceipt.grandtotal[1].currency_code[1]

\* C24 as stated: the total of an Etsy order is amount / divisor (divisor 100
\* when absent) when that is greater than zero, else the sum of its items'
\* price x quantity. A quotient by a zero divisor is infinite for a positive
\* amount, which no total_price is, and not greater than zero otherwise.
C24_RawDivisor ==
    Applied("etsy_order") =>
        /\ Len(mapOrder) = 1
        /\ mapOrder[1].currency = MapCurrency
        /\ IF MapDivisor = 0
           THEN /\ MapAmount <= 0
                /\ mapOrder[1].total_price = SumOfItems(mapOrder[1].items, Len(mapOrder[1].items))
           ELSE IF MapAmount \div MapDivisor > 0
           THEN mapOrder[1].total_price = Wide(0, MapAmount \div MapDivisor)
           ELSE mapOrder[1].total_price = SumOfItems(mapOrder[1].items, Len(mapOrder[1].items))

\* C24: the total of an Etsy order is amount / divisor (divisor 100 when
\* absent, and 1 when it is below 1) when that is greater than zero, else the
\* sum of its items' price x quantity; its currency is the receipt's currency
\* code, "USD" when absent.
C24_Total ==
    Applied("etsy_order") =>
        LET q == MapAmount \div (IF MapDivisor < 1 THEN 1 ELSE MapDivisor)
        IN  /\ Len(mapOrder) = 1
            /\ mapOrder[1].currency = MapCurrency
            /\ mapOrder[1].total_price =
                  IF q > 0 THEN Wide(0, q)
                  ELSE SumOfItems(mapOrder[1].items, Len(mapOrder[1].items))

\* C24 witness: a receipt whose grand total is an amount of 0 in USD and whose
\* one transaction is 2 pieces at 10.00; the order's total is 20 "USD"
C24_Witness ==
    /\ Applied("etsy_order")
    /\ mapReceipt.grandtotal = Some(EtsyMoney(Some(0), Some(100), Some("USD")))
    /\ Len(MapTs) = 1
    /\ MapTs[1].quantity = Some(2)
    /\ Len(mapOrder) = 1
    /\ mapOrder[1].items[1].price = 10
    /\ mapOrder[1].total_price = Wide(0, 20)
    /\ mapOrder[1].currency = "USD"

\* ------------------------------------------- claims on the image enrichment
\* the (listing id, image id) pairs the transactions of a receipt refer to
PairsOf(r) ==
    { <<Transactions(r)[k].listing_id[1], Transactions(r)[k].listing_image_id[1]>> :
        k \in { j \in 1..Len(Transactions(r)) :
                  /\ Transactions(r)[j].listing_id # None
                  /\ Transactions(r)[j].listing_image_id # None } }

\* the pairs the collected receipts refer to
ReferencedPairs == UNION { PairsOf(all_receipts[i]) : i \in 1..Len(all_receipts) }

\* the collected receipts inside the lookback window
WindowReceipts ==
    { i \in 1..Len(all_receipts) :
        ~(EtsyInstant(all_receipts[i].create_timestamp) < Today - LOOKBACK_DAYS) }

\* the URL the claim gives a pair for one answer: none for a failed lookup,
\* else the 170x135 URL when present, else the 75x75 URL
ClaimedUrl(resp) ==
    IF resp.kind # "ok" THEN None
    ELSE IF resp.url_170x135 # None
    THEN (IF resp.url_170x135[1] = "" THEN None ELSE resp.url_170x135)
    ELSE IF resp.url_75x75 # None /\ resp.url_75x75[1] # "" THEN resp.url_75x75
    ELSE None

\* the image lookups sent are for distinct referenced pairs; once the paging
\* has ended with a short page the fetch succeeds, one lookup was sent per
\* referenced pair, every receipt of the window is returned as an order, and
\* an item has the URL stored for its pair, or none when there is none
ImagesNeverFail ==
    /\ \A a, b \in 1..Len(imageReqs) : imageReqs[a] = imageReqs[b] => a = b
    /\ { imageReqs[a] : a \in 1..Len(imageReqs) } \subseteq ReferencedPairs
    /\ (etsyPc = "done" /\ lastPage.seen /\ lastPage.n < LIMIT =>
          /\ etsyResult.ok
          /\ { imageReqs[a] : a \in 1..Len(imageReqs) } = ReferencedPairs
          /\ { etsyResult.orders[a].id : a \in 1..Len(etsyResult.orders) } = WindowReceipts
          /\ Len(etsyResult.orders) = Cardinality(WindowReceipts)
          /\ \A a \in 1..Len(etsyResult.orders) :
               LET o == etsyResult.orders[a]
                   ts == Transactions(all_receipts[o.id])
               IN  /\ Len(o.items) = Len(ts)
                   /\ \A k \in 1..Len(ts) :
                        IF ts[k].listing_id = None \/ ts[k].listing_image_id = None
                        THEN o.items[k].image_url = None
                        ELSE LET key == <<ts[k].listing_id[1], ts[k].listing_image_id[1]>>
                             IN  IF \E e \in image_urls : e[1] = key
                                 THEN <<key, o.items[k].image_url[1]>> \in image_urls
                                 ELSE o.items[k].image_url = None)

\* a lookup ends in a step that either looks at the body of the answer or
\* goes on without one (a transport error, a non-2xx status): the claimed URL
\* is stored for the pair that was asked for, nothing is stored for a failed
\* lookup, no other pair is touched, and the fetch does not end with an error
ImageStored ==
    (/\ etsyPc = "images"
     /\ image_response # None \/ image_response' = None) =>
        LET key == imageReqs[Len(imageReqs)]
            u == IF image_response = None THEN None ELSE ClaimedUrl(image_response[1])
        IN  /\ image_urls' = IF u = None THEN image_urls ELSE image_urls \cup { <<key, u[1]>> }
            /\ \A e \in image_urls' : \A f \in image_urls' : e[1] = f[1] => e = f
            /\ etsyPc' \in {"images", "done"}
            /\ (etsyPc' = "done" => etsyResult'.ok)

\* C25: image enrichment sends exactly one lookup per distinct (listing id,
\* image id) pair of the collected receipts; a failed lookup (transport
\* error, non-2xx, undecodable, empty URL) never fails fetch_etsy_orders:
\* every order is returned, the items of a failed pair have no image_url, and
\* the items of the other pairs have the 170x135 URL when present, else the
\* 75x75 URL.
C25_ImageEnrichment == []ImagesNeverFail /\ [][ImageStored]_vars

\* C25 witness: two pairs were looked up, the first lookup failed and the
\* second one found a URL; both orders are returned, the item of the first
\* pair without an image, the item of the second pair with one
C25_Witness ==
    /\ etsyPc = "done"
    /\ etsyResult.ok
    /\ Len(imageReqs) = 2
    /\ image_urls = { <<imageReqs[2], "S">> }
    /\ \E a \in 1..Len(etsyResult.orders) : \E k \in 1..Len(etsyResult.orders[a].items) :
         /\ PairsOf(all_receipts[etsyResult.orders[a].id]) = { imageReqs[1], imageReqs[2] }
         /\ etsyResult.orders[a].items[k].image_url = Some("S")
         /\ \E j \in 1..Len(etsyResult.orders[a].items) :
              etsyResult.orders[a].items[j].image_url = None

\* ------------------------------------------------ claims on the Shopify dates
\* C26: an order whose created_at cannot be parsed does not abort the batch:
\* fetch_shopify_orders returns one order per order of the response, in the
\* order of the response; an order whose created_at is rejected has
\* order_date = now, every other order has its own created_at, and every
\* order is due 14 days after its order_date.
C26_BadDateKeepsBatch ==
    (shopPc = "done" /\ shopResult.ok) =>
        /\ Len(shopResult.orders) = Len(shopify_response)
        /\ \A i \in 1..Len(shopify_response) :
             LET o == shopResult.orders[i]
                 so == shopify_response[i]
             IN  /\ o.id = i
                 /\ o.source = "Shopify"
                 /\ o.order_date = IF so.created_at = None THEN Today ELSE so.created_at[1]
                 /\ o.due_date = o.order_date + 14
                 /\ Len(o.items) = Len(so.line_items)
                 /\ o.currency = so.currency

\* C26 witness: the first order of the response has a created_at that is
\* rejected and the second one was placed yesterday; both are returned, the
\* first one dated today
C26_Witness ==
    /\ shopPc = "done"
    /\ shopResult.ok
    /\ Len(shopify_response) = 2
    /\ shopify_response[1].created_at = None
    /\ shopify_response[2].created_at = Some(NowDay - 1)
    /\ Len(shopResult.orders) = 2
    /\ shopResult.orders[1].order_date = Today
    /\ shopResult.orders[2].order_date = NowDay - 1
    /\ shopResult.orders[2].due_date = NowDay + 13

\* ------------------------------------------ claims on the mapped Shopify order
\* the raw order that is mapped has no customer name: no customer object, or
\* one with neither a first nor a last name
NamesAbsent ==
    \/ mapRawOrder.customer = None
    \/ /\ mapRawOrder.customer[1].first_name = None
       /\ mapRawOrder.customer[1].last_name = None

\* C27: the customer_name of a Shopify order is never empty, and it is
\* "Unknown Customer" whenever the order has no customer object or a customer
\* object with neither a first nor a last name.
C27_NameNeverEmpty ==
    Applied("shopify_order") =>
        /\ Len(mapOrder) = 1
        /\ mapOrder[1].customer_name # <<>>
        /\ (NamesAbsent => mapOrder[1].customer_name = <<"U", "n", "k", "n", "o", "w", "n", " ", "C", "u", "s", "t", "o", "m", "e", "r">>)

\* the total the source sent is zero, absent or unparsable
ShopifyTotalUnusable == ParseF64(mapRawOrder.total_price) \in { None, Some(0) }
EtsyTotalUnusable == MapAmount = 0

\* C28: every order of either source has a non-negative total_price, and
\* when the total the source sent is zero, absent or unparsable its
\* total_price is the sum of its items' price x quantity.
C28_TotalFallsBack ==
    /\ Applied("shopify_order") =>
          /\ Len(mapOrder) = 1
          /\ ~(mapOrder[1].total_price[1] < 0)
          /\ (ShopifyTotalUnusable =>
                mapOrder[1].total_price = SumOfItems(mapOrder[1].items, Len(mapOrder[1].items)))
    /\ Applied("etsy_order") =>
          /\ Len(mapOrder) = 1
          /\ ~(mapOrder[1].total_price[1] < 0)
          /\ (EtsyTotalUnusable =>
                mapOrder[1].total_price = SumOfItems(mapOrder[1].items, Len(mapOrder[1].items)))

\* C29: every item of an order of either source has a quantity of at least 1
\* that is the quantity the source sent when that is positive: a zero, a
\* negative or a missing quantity is never turned into 0 or into a
\* wrapped-around huge unsigned value (one of 2^31 or more).
C29_QuantityPositive ==
    /\ Applied("shopify_item") =>
          /\ mapItem # None
          /\ WidePositive(mapItem[1].quantity)
          /\ mapItem[1].quantity[1] < 32768
    /\ (Applied("shopify_order") \/ Applied("etsy_order")) =>
          \A i \in 1..Len(mapOrder) : \A k \in 1..Len(mapOrder[i].items) :
              /\ WidePositive(mapOrder[i].items[k].quantity)
              /\ mapOrder[i].items[k].quantity[1] < 32768

\* ------------------------------------------------- claims on the log buffer
\* C30: after any sequence of app_log calls from any number of threads the
\* buffer holds at most 2000 entries, and they are the entries appended last,
\* in the order they were appended; app_logs_snapshot never returns more than
\* 2000 entries.
C30_BufferBounded ==
    LET n == Len(appended)
        kept == IF n > 2000 THEN 2000 ELSE n
    IN  /\ Len(logs) = kept
        /\ \A i \in 1..kept : logs[i] = appended[n - kept + i]
        /\ (snapshot # None => Len(snapshot[1]) <= 2000)

\* C30 witness: 2002 entries were appended; the buffer holds the last 2000
\* of them and a snapshot of it was taken
C30_Witness ==
    /\ Len(appended) = 2002
    /\ Len(logs) = 2000
    /\ logs[1] = appended[3]
    /\ logs[2000] = appended[2002]
    /\ snapshot = Some(logs)
====
